---- MODULE Spec2Model ----
(***************************************************************************)
(* State-machine model of the btx block indexer (BlkIndexer behind Chain): *)
(* the LevelDB key/value index, the blk and rev segment stores, the block  *)
(* cache and the transaction pool, driven by link, pop, append and remove. *)
(*                                                                         *)
(* Encodings the model fixes:                                              *)
(*  - the bytes a Writer collects are a sequence of integers, one per       *)
(*    field written; a digest Hasher::hash(bytes) is a pair of 15-bit      *)
(*    words, two polynomial checksums of that sequence, and the all-zero   *)
(*    Hasher is <<0, 0>>;                                                  *)
(*  - byte strings written to the stores are sequences of tokens, one per  *)
(*    encoded field group; values of the index are the decoded records of  *)
(*    exactly the fields their Serializer writes;                          *)
(*  - an Account is the record of its public keys (a number) and of the    *)
(*    state of the signatures it carries.                                  *)
(***************************************************************************)
EXTENDS Integers, Sequences, FiniteSets, TLC

(***************************************************************************)
(* Program constants.                                                      *)
(***************************************************************************)
COIN == 1000000
MAX_MONEY_COINS == 21000000
BASE_UTC_UNIX_TIME == 1577836800
MAX_TX_COUNT == 65535
COINBASE_MATURITY == 100
COIN_ATTR_FLAGS_COINBASE == 1
COIN_ATTR_FLAGS_TXPOOL == 2
OP_TYPE == 255
SCRIPT_TYPE_CB == 1
SCRIPT_TYPE_IN == 2
SCRIPT_TYPE_OUT == 3

\* consts::is_valid_amount: 0 <= v <= MAX_MONEY, MAX_MONEY = 21000000 * COIN
\* (the product is beyond the checker's integers, the comparison is made
\* on the quotient and the remainder by COIN).
is_valid_amount(v) ==
    /\ v >= 0
    /\ \/ v \div COIN < MAX_MONEY_COINS
       \/ (v \div COIN = MAX_MONEY_COINS /\ v % COIN = 0)

(***************************************************************************)
(* Results: a Rust Result<T, Error> is [err |-> "", val |-> v] for Ok(v)   *)
(* and [err |-> message] for Err.                                          *)
(***************************************************************************)
\* v under the name the operator F gives it: a let binding
Bind(v, F(_)) == F(v)
Ok(v) == [err |-> "", val |-> v]
Err(m) == [err |-> m, val |-> <<>>]
IsOk(r) == r.err = ""
\* a panic of the running thread: the call returns no value
Panic(m) == [err |-> "panic", val |-> m]
IsPanic(r) == r.err = "panic"

(***************************************************************************)
(* Hasher.                                                                 *)
(***************************************************************************)
\* the digest of the bytes lo..hi begun at 0, and p to the power of their
\* number, both modulo m
RECURSIVE ChecksumPart(_, _, _, _, _)
ChecksumPart(bytes, lo, hi, p, m) ==
    IF lo > hi THEN <<1 % m, 0>>
    ELSE IF lo = hi THEN <<p % m, bytes[lo] % m>>
    ELSE LET l == ChecksumPart(bytes, lo, (lo + hi) \div 2, p, m)
             r == ChecksumPart(bytes, ((lo + hi) \div 2) + 1, hi, p, m)
         IN  <<(l[1] * r[1]) % m, (l[2] * r[1] + r[2]) % m>>
\* acc * p + byte, modulo m, taken byte by byte from the i-th on
RECURSIVE ChecksumFrom(_, _, _, _, _)
ChecksumFrom(bytes, i, acc, p, m) ==
    IF i > Len(bytes) THEN acc
    ELSE ChecksumFrom(bytes, i + 1, (acc * p + (bytes[i] % m)) % m, p, m)
\* acc * p + byte, modulo m, taken over the bytes from the i-th on: byte by
\* byte for a short message, by halves for a long one
Checksum(bytes, i, acc, p, m) ==
    IF Len(bytes) - i < 64 THEN ChecksumFrom(bytes, i, acc, p, m)
    ELSE Bind(ChecksumPart(bytes, i, Len(bytes), p, m), LAMBDA d :
           (acc * d[1] + d[2]) % m)
\* Hasher::hash: the message is closed by its length before it is digested
Hash(bytes) ==
    <<Checksum(Append(bytes, Len(bytes)), 1, 1, 50021, 32749),
      Checksum(Append(bytes, Len(bytes)), 1, 1, 60013, 32719)>>
\* Hasher::zero
Zero == <<0, 0>>
is_zero(h) == h = Zero

(***************************************************************************)
(* Accounts and scripts.                                                   *)
(***************************************************************************)
\* Account::encode_sign: the account without its signatures.
Account_encode_sign(acc) == <<acc.keys>>
\* Account::get_address: digest of the account's keys.
Account_get_address(acc) == Hash(<<acc.keys>>)

\* Script::new_script_cb / new_script_in / new_script_out
new_script_cb(height, data) == [typ |-> SCRIPT_TYPE_CB, height |-> height, data |-> data]
new_script_in(acc) == [typ |-> SCRIPT_TYPE_IN, acc |-> acc]
new_script_out(hasher) == [typ |-> SCRIPT_TYPE_OUT, hasher |-> hasher]

\* Script::encode_sign: CB and OUT scripts whole, IN scripts without the
\* signatures of the account they carry.
Script_encode_sign(s) ==
    IF s.typ = SCRIPT_TYPE_IN
    THEN <<OP_TYPE, SCRIPT_TYPE_IN>> \o Account_encode_sign(s.acc)
    ELSE IF s.typ = SCRIPT_TYPE_CB THEN <<OP_TYPE, SCRIPT_TYPE_CB, s.height>> \o s.data
    ELSE <<OP_TYPE, SCRIPT_TYPE_OUT>> \o s.hasher

(***************************************************************************)
(* TxIn, TxOut, Tx.                                                        *)
(***************************************************************************)
\* TxIn::is_coinbase
TxIn_is_coinbase(inv) == inv.out = Zero /\ inv.idx = 0 /\ inv.script.typ = SCRIPT_TYPE_CB
\* TxIn::out_key: referenced txid followed by the output index.
TxIn_out_key(inv) == <<inv.out, inv.idx>>
\* TxIn::encode_sign
TxIn_encode_sign(inv) ==
    inv.out \o <<inv.idx>> \o Script_encode_sign(inv.script) \o <<inv.seq>>
\* TxOut::encode_sign
TxOut_encode_sign(outv) == <<outv.value>> \o Script_encode_sign(outv.script)
\* HasAddress for TxIn: only SCRIPT_TYPE_IN scripts carry an account.
TxIn_get_address(inv) ==
    IF inv.script.typ = SCRIPT_TYPE_IN
    THEN Ok(Account_get_address(inv.script.acc))
    ELSE Err("script type error,not SCRIPT_TYPE_IN")
\* HasAddress for TxOut: only SCRIPT_TYPE_OUT scripts carry an address.
TxOut_get_address(outv) ==
    IF outv.script.typ = SCRIPT_TYPE_OUT
    THEN Ok(outv.script.hasher)
    ELSE Err("script type error,not SCRIPT_TYPE_OUT")

\* Tx::is_coinbase
Tx_is_coinbase(tx) == Len(tx.ins) > 0 /\ TxIn_is_coinbase(tx.ins[1])
\* Tx::encode_sign
RECURSIVE encode_ins(_, _)
encode_ins(ins, i) ==
    IF i > Len(ins) THEN <<>> ELSE TxIn_encode_sign(ins[i]) \o encode_ins(ins, i + 1)
RECURSIVE encode_outs(_, _)
encode_outs(outs, i) ==
    IF i > Len(outs) THEN <<>> ELSE TxOut_encode_sign(outs[i]) \o encode_outs(outs, i + 1)
Tx_encode_sign(tx) ==
    <<tx.ver, Len(tx.ins)>> \o encode_ins(tx.ins, 1)
    \o <<Len(tx.outs)>> \o encode_outs(tx.outs, 1)
\* Tx::id
Tx_id(tx) == Hash(Tx_encode_sign(tx))

(***************************************************************************)
(* Merkle tree.                                                            *)
(***************************************************************************)
Pow2(n) == 2 ^ n
\* MerkleTree::hash
MerkleTree_hash(h1, h2) == Hash(h1 \o h2)
\* MerkleTree::tree_width
tree_width(trans, h) == (trans + Pow2(h) - 1) \div Pow2(h)
\* MerkleTree::tree_height
RECURSIVE tree_height_from(_, _)
tree_height_from(trans, height) ==
    IF tree_width(trans, height) > 1
    THEN tree_height_from(trans, height + 1)
    ELSE height
tree_height(trans) == tree_height_from(trans, 0)
\* MerkleTree::calc_hasher (positions are 0-based as in the source)
RECURSIVE calc_hasher(_, _, _)
calc_hasher(ids, height, pos) ==
    IF height = 0 THEN ids[pos + 1]
    ELSE LET left == calc_hasher(ids, height - 1, pos * 2)
             right == IF pos * 2 + 1 < tree_width(Len(ids), height - 1)
                      THEN calc_hasher(ids, height - 1, pos * 2 + 1)
                      ELSE left
         IN MerkleTree_hash(left, right)
\* MerkleTree::compute.  MerkleTree::new builds the partial tree with no leaf
\* marked: build(height, 0) pushes one bit and calls calc_hasher(height, 0),
\* the root, which extract_root returns.  For no ids the height is 0 and
\* calc_hasher(0, 0) indexes ids[0] of the empty vector; extract_root, which
\* would return BadMerkleTree, is not reached.
MerkleTree_compute(ids) ==
    IF Len(ids) = 0 THEN Panic("index out of bounds")
    ELSE Ok(calc_hasher(ids, tree_height(Len(ids)), 0))

(***************************************************************************)
(* Compact difficulty and proof of work.  A Hasher read as a number        *)
(* (BigUint) is a natural number; a digest reads as its two 15-bit words,  *)
(* the first one lowest.                                                   *)
(***************************************************************************)
RECURSIVE ByteLen(_)
ByteLen(n) == IF n = 0 THEN 0 ELSE 1 + ByteLen(n \div 256)
\* TryFrom<u32> for Hasher (from_compact)
from_compact(value) ==
    LET size == value \div Pow2(24)
        w == value % Pow2(23)
    IN IF size <= 3 THEN w \div Pow2(8 * (3 - size))
       ELSE w * Pow2(8 * (size - 3))
\* Hasher::compact
compact(n) ==
    LET s == ByteLen(n)
        cv == IF s <= 3 THEN n * Pow2(8 * (3 - s)) ELSE n \div Pow2(8 * (s - 3))
        hi == (cv \div Pow2(23)) % 2 = 1
        cv2 == IF hi THEN cv \div 256 ELSE cv
        s2 == IF hi THEN s + 1 ELSE s
    IN cv2 + s2 * Pow2(24)
\* Hasher::compute_bits (self is the pow limit)
compute_bits(limit, stime, ltime, ptime, lbits) ==
    LET d == ltime - ptime
        lo == stime \div 4
        hi == stime * 4
        sub == IF d < lo THEN lo ELSE IF d > hi THEN hi ELSE d
        pow == (from_compact(lbits) * sub) \div stime
    IN IF pow <= limit THEN compact(pow) ELSE compact(limit)
\* From<&Hasher> for BigUint
Hasher_uint(id) == id[1] + id[2] * Pow2(15)
\* Hasher::verify_pow
verify_pow(id, pl, bits) ==
    LET v == from_compact(bits) IN pl >= v /\ Hasher_uint(id) <= v

(***************************************************************************)
(* Header and Block.                                                       *)
(***************************************************************************)
\* Header::block_version
block_version(r, v) == v + r * 65536
\* Header::get_timestamp
Header_get_timestamp(h) == ((h.ver \div 65536) % 65536) * BASE_UTC_UNIX_TIME + h.time
\* Serializer for Header, encode
Header_encode(h) == <<h.ver>> \o h.prev \o h.merkle \o <<h.time, h.bits, h.nonce>>
\* Header::id: digest of the encoded header
Header_id(h) == Hash(Header_encode(h))
\* Header::check_value, now being util::timestamp()
Header_check_value(h, now) ==
    IF Header_get_timestamp(h) > now THEN Err("block timestamp error")
    ELSE IF h.merkle = Zero THEN Err("merkle id error")
    ELSE Ok(<<>>)

\* store::Attr::default: every field u32::MAX, written -1 here
NoAttr == 0 - 1
Attr_default == [idx |-> NoAttr, off |-> NoAttr, len |-> NoAttr]

\* a Block as it is built or decoded: hhv 0 and no storage attributes
NewBlock(header, txs) ==
    [header |-> header, txs |-> txs, hhv |-> 0,
     blk |-> Attr_default, rev |-> Attr_default]
\* impl Clone for Block: header and txs are cloned, hhv, blk and rev are reset
Block_clone(b) ==
    [header |-> b.header, txs |-> b.txs, hhv |-> 0,
     blk |-> Attr_default, rev |-> Attr_default]
Block_id(b) == Header_id(b.header)
\* Serializer for Block, encode: header, u16 count, transactions
Block_bytes(b) == <<b.header, Len(b.txs)>> \o b.txs
\* Serializer for Block, decode
Block_decode(buf) ==
    IF Len(buf) < 2 \/ Len(buf) # 2 + buf[2] THEN Err("decode block error")
    ELSE Ok(NewBlock(buf[1], SubSeq(buf, 3, Len(buf))))
\* Block::compute_merkle
Block_compute_merkle(b) ==
    MerkleTree_compute([i \in 1..Len(b.txs) |-> Tx_id(b.txs[i])])

(***************************************************************************)
(* Index keys (IKey).  The four families have different byte lengths (13,  *)
(* 4, 32 and 66 bytes); the leading tag stands for the length.             *)
(***************************************************************************)
BEST_KEY == <<"__best__key__">>
height_key(h) == <<"u32", h>>
id_key(id) == <<"hasher", id>>
\* HasKey for CoinAttr: cpk, tx, idx
CoinAttr_key(coin) == <<"coin", coin.cpk, coin.tx, coin.idx>>
\* Serializer for CoinAttr: value, flags, height
CoinAttr_value(coin) == [value |-> coin.value, flags |-> coin.flags, height |-> coin.height]
is_coin_key(k) == k[1] = "coin"

\* CoinAttr::is_txpool / is_coinbase (flag bits 1 and 0)
CoinAttr_is_txpool(coin) == (coin.flags \div COIN_ATTR_FLAGS_TXPOOL) % 2 = 1
CoinAttr_is_coinbase(coin) == (coin.flags \div COIN_ATTR_FLAGS_COINBASE) % 2 = 1
\* is_valid without the test of the from-mempool flag
CoinAttr_is_valid_anyflag(coin, spent) ==
    IF ~CoinAttr_is_coinbase(coin) THEN TRUE
    ELSE spent - coin.height >= COINBASE_MATURITY
\* CoinAttr::is_valid.  spent - height is a u32 subtraction; every caller
\* passes the height after the best one, which no stored coin exceeds.
CoinAttr_is_valid(coin, spent) ==
    IF CoinAttr_is_txpool(coin) THEN FALSE
    ELSE IF ~CoinAttr_is_coinbase(coin) THEN TRUE
    ELSE spent - coin.height >= COINBASE_MATURITY

(***************************************************************************)
(* IBatch: the forward write batch b and the inverse batch f.              *)
(***************************************************************************)
OpPut(k, v) == [typ |-> 1, k |-> k, v |-> v]
OpDel(k) == [typ |-> 2, k |-> k]
\* IBatch::new
IBatch_new(r) == [b |-> <<>>, f |-> <<>>, rev |-> r]
\* IBatch::put / put_bytes: inverse is a delete
IBatch_put(batch, k, v) ==
    [batch EXCEPT !.b = Append(@, OpPut(k, v)),
                  !.f = IF batch.rev THEN Append(@, OpDel(k)) ELSE @]
\* a set that records no inverse entry
IBatch_set_noinverse(batch, k, new, old) == [batch EXCEPT !.b = Append(@, OpPut(k, new))]
\* IBatch::set: inverse puts the old value back
IBatch_set(batch, k, new, old) ==
    [batch EXCEPT !.b = Append(@, OpPut(k, new)),
                  !.f = IF batch.rev THEN Append(@, OpPut(k, old)) ELSE @]
\* a del that records no inverse entry for the value it is given
IBatch_del_forgets(batch, k, v) == [batch EXCEPT !.b = Append(@, OpDel(k))]
\* IBatch::del with Some(v): inverse puts v back
IBatch_del(batch, k, v) ==
    [batch EXCEPT !.b = Append(@, OpDel(k)),
                  !.f = IF batch.rev THEN Append(@, OpPut(k, v)) ELSE @]
\* IBatch::del / del_bytes with None: no inverse entry
IBatch_del_none(batch, k) == [batch EXCEPT !.b = Append(@, OpDel(k))]
\* IBatch::reverse: the inverse batch serialised entry by entry
IBatch_reverse(batch) == batch.f
\* TryFrom<&[u8]> for IBatch: the entries replayed into IBatch::new(false)
RECURSIVE IBatch_parse(_, _)
IBatch_parse(buf, batch) ==
    IF Len(buf) = 0 THEN Ok(batch)
    ELSE LET e == Head(buf) IN
         IF e.typ = 1 THEN IBatch_parse(Tail(buf), IBatch_put(batch, e.k, e.v))
         ELSE IF e.typ = 2 THEN IBatch_parse(Tail(buf), IBatch_del_none(batch, e.k))
         ELSE Err("type byte error")
IBatch_try_from(buf) == IBatch_parse(buf, IBatch_new(FALSE))

(***************************************************************************)
(* LevelDB.  A database is what its directory held when it was opened      *)
(* (base, a function from keys to values that no run rewrites) and the     *)
(* writes made since: put, the entries written, and del, the keys of base  *)
(* deleted.  The pair (put, del) is kept canonical: an entry put with the  *)
(* value base already has is no entry of put, and only keys of base are in *)
(* del; so two databases over one base hold the same entries exactly when  *)
(* their put and del are equal.                                            *)
(***************************************************************************)
\* LevelDB::open
LevelDB_open(base) == [base |-> base, put |-> <<>>, del |-> {}]
\* the keys the database holds
LevelDB_keys(db) == (DOMAIN db.base \ db.del) \cup DOMAIN db.put
\* LevelDB::has
LevelDB_has(db, k) ==
    k \in DOMAIN db.put \/ (k \in DOMAIN db.base /\ k \notin db.del)
\* LevelDB::get
LevelDB_get(db, k) ==
    IF k \in DOMAIN db.put THEN Ok(db.put[k])
    ELSE IF k \in DOMAIN db.base /\ k \notin db.del THEN Ok(db.base[k])
    ELSE Err("data empty")
\* one entry of a write batch applied
ApplyOp(db, e) ==
    IF e.typ = 1
    THEN IF e.k \in DOMAIN db.base /\ db.base[e.k] = e.v
         THEN [db EXCEPT !.put = [x \in DOMAIN db.put \ {e.k} |-> db.put[x]],
                         !.del = @ \ {e.k}]
         ELSE [db EXCEPT !.put = [x \in DOMAIN db.put \cup {e.k} |->
                                     IF x = e.k THEN e.v ELSE db.put[x]],
                         !.del = @ \ {e.k}]
    ELSE [db EXCEPT !.put = [x \in DOMAIN db.put \ {e.k} |-> db.put[x]],
                    !.del = IF e.k \in DOMAIN db.base THEN @ \cup {e.k} ELSE @]
RECURSIVE ApplyOps(_, _)
ApplyOps(db, ops) ==
    IF Len(ops) = 0 THEN db ELSE ApplyOps(ApplyOp(db, Head(ops)), Tail(ops))
\* LevelDB::write: the forward batch applied atomically, in order
LevelDB_write(db, batch) == ApplyOps(db, batch.b)

(***************************************************************************)
(* Store: an append-only segment log, base being what the directory held   *)
(* when the store was opened and log what was appended since.  One segment *)
(* file of MAX_FILE_SIZE holds every record of the runs modelled, so the   *)
(* file index stays 0.                                                     *)
(***************************************************************************)
\* Store::new
Store_new(base) == [base |-> base, log |-> <<>>]
Store_len(st) == Len(st.base) + Len(st.log)
\* Store::push
Store_push(st, bytes) ==
    IF Len(bytes) = 0 THEN [err |-> "push empty data", st |-> st, attr |-> Attr_default]
    ELSE [err |-> "", st |-> [st EXCEPT !.log = @ \o bytes],
          attr |-> [idx |-> 0, off |-> Store_len(st), len |-> Len(bytes)]]
\* Store::pull
Store_pull(st, attr) ==
    IF attr.idx # 0 \/ attr.off < 0 \/ attr.off + attr.len > Store_len(st)
    THEN Err("pull data error")
    ELSE IF attr.off + attr.len <= Len(st.base)
    THEN Ok(SubSeq(st.base, attr.off + 1, attr.off + attr.len))
    ELSE Ok(SubSeq(st.log, attr.off - Len(st.base) + 1,
                   attr.off - Len(st.base) + attr.len))

(***************************************************************************)
(* Store over a directory of segment files.  A directory fs is a function  *)
(* from file names to the bytes of the files, a name being the pair of the *)
(* number and the extension that store_file_path formats as                *)
(* "{:08}.{}"; a store is the record of its fields [idx, max, dir, ext,    *)
(* cache], its cache the sequence of the StoreFile handles [idx, file],    *)
(* file naming the file the handle was opened on.  A method returns        *)
(* [err, val, st, fs]: the store and the directory as the call leaves them.*)
(***************************************************************************)
MAX_CACHE_FILE == 16
SOk(v, st, fs) == [err |-> "", val |-> v, st |-> st, fs |-> fs]
SErr(m, st, fs) == [err |-> m, val |-> <<>>, st |-> st, fs |-> fs]
\* StoreFile::store_file_path
store_file_path(idx, ext) == <<idx, ext>>
\* StoreFile::new
StoreFile_new(idx, name) == [idx |-> idx, file |-> name]
\* OpenOptions append, read, create: the file is made if it is missing
CreateFile(fs, name) ==
    IF name \in DOMAIN fs THEN fs
    ELSE [x \in DOMAIN fs \cup {name} |-> IF x = name THEN <<>> ELSE fs[x]]
\* the length of a file, 0 for one that is missing
FileLen(fs, name) == IF name \in DOMAIN fs THEN Len(fs[name]) ELSE 0
\* the greatest number among the files of the extension, 0 if there is none
MaxIdx(fs, ext) ==
    IF \E x \in DOMAIN fs : x[2] = ext
    THEN CHOOSE n \in {x[1] : x \in {y \in DOMAIN fs : y[2] = ext}} :
            \A x \in DOMAIN fs : x[2] = ext => x[1] <= n
    ELSE 0
\* StoreFile::init_file: the last file of the directory, the next one if
\* the last is longer than max_file_size
StoreFile_init_file(fs, ext, max_file_size) ==
    Bind(MaxIdx(fs, ext), LAMBDA top :
    Bind(IF FileLen(fs, store_file_path(top, ext)) > max_file_size
         THEN top + 1 ELSE top, LAMBDA n :
    [sf |-> StoreFile_new(n, store_file_path(n, ext)),
     fs |-> CreateFile(fs, store_file_path(n, ext))]))
\* StoreFile::open_only_read
StoreFile_open_only_read(fs, idx, ext) ==
    IF store_file_path(idx, ext) \in DOMAIN fs
    THEN Ok(StoreFile_new(idx, store_file_path(idx, ext)))
    ELSE Err("No such file or directory")
\* the sequence without its i-th element: Vec::remove
VecRemove(v, i) == SubSeq(v, 1, i - 1) \o SubSeq(v, i + 1, Len(v))
\* Store::remove_file: the handle of the least number goes, the handle of
\* the file written to left aside
Store_remove_file(st) ==
    Bind({i \in 1..Len(st.cache) : st.cache[i].idx # st.idx}, LAMBDA others :
    IF others = {} THEN st
    ELSE Bind(CHOOSE i \in others :
                 \A j \in others : \/ st.cache[i].idx < st.cache[j].idx
                                     \/ (st.cache[i].idx = st.cache[j].idx /\ i <= j),
              LAMBDA ridx : [st EXCEPT !.cache = VecRemove(@, ridx)]))
\* Store::open_file: open_only_read is handed the directory where the
\* extension belongs; val is cache.last()
Store_open_file(st, fs, idx) ==
    Bind(StoreFile_open_only_read(fs, idx, st.dir), LAMBDA r :
    IF ~IsOk(r) THEN SErr(r.err, st, fs)
    ELSE Bind([st EXCEPT !.cache = Append(@, r.val)], LAMBDA pushed :
         Bind(IF Len(pushed.cache) > MAX_CACHE_FILE THEN Store_remove_file(pushed)
              ELSE pushed, LAMBDA kept :
         SOk(kept.cache[Len(kept.cache)], kept, fs))))
\* Store::cache_file
Store_cache_file(st, idx) ==
    IF \E i \in 1..Len(st.cache) : st.cache[i].idx = idx
    THEN Ok(st.cache[CHOOSE i \in 1..Len(st.cache) :
                        /\ st.cache[i].idx = idx
                        /\ \A j \in 1..(i - 1) : st.cache[j].idx # idx])
    ELSE Err("none")
\* Store::curr_file
Store_curr_file(st) ==
    IF IsOk(Store_cache_file(st, st.idx)) THEN Store_cache_file(st, st.idx)
    ELSE Err("not found max file")
\* a check_next that goes to the next file only once the file written to
\* is full
Store_check_next_full(st, fs, l) ==
    IF l > st.max THEN SErr("max must > push bytes len", st, fs)
    ELSE IF ~IsOk(Store_curr_file(st)) THEN SErr("not found max file", st, fs)
    ELSE Bind(FileLen(fs, Store_curr_file(st).val.file), LAMBDA pos :
         IF pos < st.max THEN SOk(pos, st, fs)
         ELSE SOk(0, [st EXCEPT !.idx = @ + 1,
                                !.cache = Append(@, StoreFile_new(st.idx + 1,
                                             store_file_path(st.idx + 1, st.ext)))],
                  CreateFile(fs, store_file_path(st.idx + 1, st.ext))))
\* Store::check_next: the position the bytes will be written at, in the
\* file written to or in the next one, which it creates
Store_check_next(st, fs, l) ==
    IF l > st.max THEN SErr("max must > push bytes len", st, fs)
    ELSE IF ~IsOk(Store_curr_file(st)) THEN SErr("not found max file", st, fs)
    ELSE Bind(FileLen(fs, Store_curr_file(st).val.file), LAMBDA pos :
         IF pos + l <= st.max THEN SOk(pos, st, fs)
         ELSE SOk(0, [st EXCEPT !.idx = @ + 1,
                                !.cache = Append(@, StoreFile_new(st.idx + 1,
                                             store_file_path(st.idx + 1, st.ext)))],
                  CreateFile(fs, store_file_path(st.idx + 1, st.ext))))
\* Store::new on the directory fs
Store_new_in(fs, dir, ext, max) ==
    Bind(StoreFile_init_file(fs, ext, max), LAMBDA r :
    SOk(<<>>, [idx |-> r.sf.idx, max |-> max, dir |-> dir, ext |-> ext,
               cache |-> <<r.sf>>], r.fs))
\* Store::push on the directory fs
Store_push_in(st, fs, b) ==
    IF Len(b) = 0 THEN SErr("push empty data", st, fs)
    ELSE Bind(Store_check_next(st, fs, Len(b)), LAMBDA r :
         IF ~IsOk(r) THEN r
         ELSE IF ~IsOk(Store_curr_file(r.st)) THEN SErr("not found max file", r.st, r.fs)
         ELSE SOk([idx |-> r.st.idx, off |-> r.val, len |-> Len(b)], r.st,
                  [r.fs EXCEPT ![Store_curr_file(r.st).val.file] = @ \o b]))
\* StoreFile::seek and StoreFile::read of l bytes at p
StoreFile_read(fs, sf, p, l) ==
    IF p + l <= FileLen(fs, sf.file) THEN Ok(SubSeq(fs[sf.file], p + 1, p + l))
    ELSE Err("read error")
\* Store::pull on the directory fs
Store_pull_in(st, fs, i, p, l) ==
    IF IsOk(Store_cache_file(st, i))
    THEN Bind(StoreFile_read(fs, Store_cache_file(st, i).val, p, l), LAMBDA r :
              [err |-> r.err, val |-> r.val, st |-> st, fs |-> fs])
    ELSE Bind(Store_open_file(st, fs, i), LAMBDA o :
         IF ~IsOk(o) THEN SErr("open file error", o.st, fs)
         ELSE Bind(StoreFile_read(fs, o.val, p, l), LAMBDA r :
              [err |-> r.err, val |-> r.val, st |-> o.st, fs |-> fs]))

(***************************************************************************)
(* BlkCache: key -> cached block.  The capacity (10240) is beyond the      *)
(* number of blocks of the runs modelled, so nothing is ever evicted.      *)
(***************************************************************************)
\* BlkCache::put: stores and returns Arc::new(v.clone())
BlkCache_put(c, k, b) ==
    [cache |-> [x \in DOMAIN c \cup {k} |-> IF x = k THEN Block_clone(b) ELSE c[x]],
     val |-> Block_clone(b)]
\* BlkCache::pop
BlkCache_pop(c, k) == [x \in DOMAIN c \ {k} |-> c[x]]

(***************************************************************************)
(* BlkIndexer.  An indexer value is the record of its fields               *)
(*   [leveldb, cache, blk, rev, pool, conf];                               *)
(* a method taking &mut self returns [err, val, self], self being the      *)
(* indexer as the call leaves it (reads fill the block cache).             *)
(***************************************************************************)
ROk(v, self) == [err |-> "", val |-> v, self |-> self]
RErr(m, self) == [err |-> m, val |-> <<>>, self |-> self]

\* Config::compute_reward
compute_reward(c, h) ==
    LET hlv == h \div c.halving
    IN IF hlv >= 64 THEN 0 ELSE (50 * COIN) \div Pow2(hlv)

\* BlkIndexer::best
best(self) == LevelDB_get(self.leveldb, BEST_KEY)
\* BlkIndexer::next_height
next_height(self) == IF IsOk(best(self)) THEN best(self).val.height + 1 ELSE 0

\* BlkIndexer::get for a block id key: cache first, else index attribute,
\* segment read, decode, attributes filled in, cache put (which clones).
get_id(self, k) ==
    IF k \in DOMAIN self.cache THEN ROk(self.cache[k], self)
    ELSE Bind(LevelDB_get(self.leveldb, k), LAMBDA attr :
         IF ~IsOk(attr) THEN RErr(attr.err, self)
         ELSE Bind(Store_pull(self.blk, attr.val.blk), LAMBDA buf :
              IF ~IsOk(buf) THEN RErr(buf.err, self)
              ELSE Bind(Block_decode(buf.val), LAMBDA dec :
                   IF ~IsOk(dec) THEN RErr(dec.err, self)
                   ELSE Bind([dec.val EXCEPT !.hhv = attr.val.hhv,
                                                 !.blk = attr.val.blk,
                                                 !.rev = attr.val.rev], LAMBDA b :
        Bind(BlkCache_put(self.cache, k, b), LAMBDA put : ROk(put.val, [self EXCEPT !.cache = put.cache]))))))
\* BlkIndexer::get: a height key is resolved to the id it stores
get(self, k) ==
    IF k[1] # "u32" THEN get_id(self, k)
    ELSE Bind(LevelDB_get(self.leveldb, k), LAMBDA ik :
         IF ~IsOk(ik) THEN RErr(ik.err, self) ELSE get_id(self, id_key(ik.val)))

\* BlkIndexer::get_tx (Block::get_tx bounds included)
get_tx(self, id) ==
    Bind(LevelDB_get(self.leveldb, id_key(id)), LAMBDA attr :
    IF ~IsOk(attr) THEN RErr(attr.err, self)
    ELSE Bind(get(self, id_key(attr.val.blk)), LAMBDA b :
         IF ~IsOk(b) THEN b
         ELSE IF attr.val.idx >= Len(b.val.txs) THEN RErr("NotFoundTx", b.self)
         ELSE ROk([tx |-> b.val.txs[attr.val.idx + 1], hhv |-> b.val.hhv], b.self)))
\* BlkIndexer::get_txin_ref_txout
get_txin_ref_txout(self, inv) ==
    Bind(get_tx(self, inv.out), LAMBDA t :
    IF ~IsOk(t) THEN t
    ELSE IF inv.idx >= Len(t.val.tx.outs) THEN RErr("NotFoundTxOut", t.self)
    ELSE ROk(t.val.tx.outs[inv.idx + 1], t.self))
\* BlkIndexer::get_txin_ref_coin: the coin rebuilt from the referenced
\* output, its height taken from the hhv of the block that get returned
get_txin_ref_coin(self, inv) ==
    Bind(get_tx(self, inv.out), LAMBDA t :
    IF ~IsOk(t) THEN t
    ELSE IF inv.idx >= Len(t.val.tx.outs) THEN RErr("NotFoundTxOut", t.self)
    ELSE Bind(t.val.tx.outs[inv.idx + 1], LAMBDA outv :
        Bind(TxOut_get_address(outv), LAMBDA addr : IF ~IsOk(addr) THEN RErr(addr.err, t.self)
            ELSE ROk([cpk |-> addr.val, tx |-> Tx_id(t.val.tx), idx |-> inv.idx,
                      value |-> outv.value,
                      flags |-> IF Tx_is_coinbase(t.val.tx)
                                THEN COIN_ATTR_FLAGS_COINBASE ELSE 0,
                      height |-> t.val.hhv], t.self))))
\* BlkIndexer::get_coin: the record stored under cpk || tx || idx
get_coin(self, acc, tx, idx) ==
    Bind(CoinAttr_key([cpk |-> acc, tx |-> tx, idx |-> idx]), LAMBDA key :
        Bind(LevelDB_get(self.leveldb, key), LAMBDA cv : IF ~IsOk(cv) THEN cv
       ELSE Ok([cpk |-> acc, tx |-> tx, idx |-> idx, value |-> cv.val.value,
                flags |-> cv.val.flags, height |-> cv.val.height])))

\* Exector::exec of the input script followed by the referenced output
\* script under LinkExectorEnv: OP_VERIFY_INOUT, OP_HASHER, OP_EQUAL_VERIFY
\* require the address of the input's account to be the output's hasher,
\* OP_CHECKSIG_VERIFY requires the account's signatures to verify.
script_exec(inv, outv) ==
    IF outv.script.typ # SCRIPT_TYPE_OUT THEN Err("ScriptFmtErr")
    ELSE IF Account_get_address(inv.script.acc) # outv.script.hasher
    THEN Err("hasher not equal")
    ELSE IF inv.script.acc.sigs # "ok" THEN Err("check sig error")
    ELSE Ok(<<>>)
\* BlkIndexer::check_tx_sign
RECURSIVE check_tx_sign_from(_, _, _)
check_tx_sign_from(self, tx, i) ==
    IF i > Len(tx.ins) THEN ROk(<<>>, self)
    ELSE Bind(tx.ins[i], LAMBDA inv :
         IF TxIn_is_coinbase(inv) THEN check_tx_sign_from(self, tx, i + 1)
         ELSE Bind(get_txin_ref_txout(self, inv), LAMBDA outv :
              IF ~IsOk(outv) THEN outv
              ELSE Bind(script_exec(inv, outv.val), LAMBDA x :
                   IF ~IsOk(x) THEN RErr(x.err, outv.self)
                   ELSE check_tx_sign_from(outv.self, tx, i + 1))))
check_tx_sign(self, tx) == check_tx_sign_from(self, tx, 1)

\* inputs whose value is taken from the referenced output, no coin looked up
RECURSIVE check_tx_amount_ins_unchecked(_, _, _, _, _)
check_tx_amount_ins_unchecked(self, height, tx, i, ifee) ==
    IF i > Len(tx.ins) THEN ROk(ifee, self)
    ELSE IF TxIn_is_coinbase(tx.ins[i])
    THEN check_tx_amount_ins_unchecked(self, height, tx, i + 1, ifee)
    ELSE Bind(get_txin_ref_txout(self, tx.ins[i]), LAMBDA outv :
         IF ~IsOk(outv) THEN outv
         ELSE check_tx_amount_ins_unchecked(outv.self, height, tx, i + 1,
                                            ifee + outv.val.value))
\* BlkIndexer::check_tx_amount, the loop over the inputs: val is ifee
RECURSIVE check_tx_amount_ins(_, _, _, _, _)
check_tx_amount_ins(self, height, tx, i, ifee) ==
    IF i > Len(tx.ins) THEN ROk(ifee, self)
    ELSE Bind(tx.ins[i], LAMBDA inv :
         IF TxIn_is_coinbase(inv) THEN check_tx_amount_ins(self, height, tx, i + 1, ifee)
         ELSE Bind(TxIn_get_address(inv), LAMBDA addr :
              IF ~IsOk(addr) THEN RErr(addr.err, self)
              ELSE Bind(get_txin_ref_txout(self, inv), LAMBDA outv :
                   IF ~IsOk(outv) THEN outv
                   ELSE Bind(TxOut_get_address(outv.val), LAMBDA oaddr :
                        IF ~IsOk(oaddr) THEN RErr(oaddr.err, outv.self)
                        ELSE IF addr.val # oaddr.val
                        THEN RErr("cost addr != out addr", outv.self)
                        ELSE Bind(get_coin(outv.self, addr.val, inv.out, inv.idx), LAMBDA coin :
                             IF ~IsOk(coin) THEN RErr(coin.err, outv.self)
                             ELSE IF addr.val # coin.val.cpk
                             THEN RErr("cost addr != coin addr", outv.self)
                             ELSE IF outv.val.value # coin.val.value
                             THEN RErr("out value != coin value", outv.self)
                             ELSE IF ~CoinAttr_is_valid(coin.val, height)
                             THEN RErr("coin not valid", outv.self)
                             ELSE check_tx_amount_ins(outv.self, height, tx, i + 1,
                                                      ifee + coin.val.value))))))
\* the loop over the outputs: val is <<ofee, cfee>>
RECURSIVE check_tx_amount_outs(_, _, _, _)
check_tx_amount_outs(tx, i, ofee, cfee) ==
    IF i > Len(tx.outs) THEN Ok(<<ofee, cfee>>)
    ELSE Bind(tx.outs[i], LAMBDA outv :
         IF ~is_valid_amount(outv.value) THEN Err("outv value error")
         ELSE IF outv.value = 0 THEN Err("outv value error")
         ELSE IF Tx_is_coinbase(tx)
         THEN check_tx_amount_outs(tx, i + 1, ofee, cfee + outv.value)
         ELSE check_tx_amount_outs(tx, i + 1, ofee + outv.value, cfee))
\* BlkIndexer::check_tx_amount: val is <<tfee, cfee>>
check_tx_amount(self, height, tx) ==
    Bind(check_tx_amount_ins(self, height, tx, 1, 0), LAMBDA ins :
    IF ~IsOk(ins) THEN ins
    ELSE Bind(check_tx_amount_outs(tx, 1, 0, 0), LAMBDA outs :
         IF ~IsOk(outs) THEN RErr(outs.err, ins.self)
         ELSE Bind(ins.val, LAMBDA ifee :
        Bind(outs.val[1], LAMBDA ofee :
        Bind(outs.val[2], LAMBDA cfee : IF ~is_valid_amount(ifee) \/ ~is_valid_amount(ofee)
                 THEN RErr("ifee or ofee error", ins.self)
                 ELSE IF ofee > ifee THEN RErr("tx out fee > tx input fee", ins.self)
                 ELSE IF ~is_valid_amount(ifee - ofee) THEN RErr("tfee  error", ins.self)
                 ELSE IF ~is_valid_amount(cfee) THEN RErr("cfee  error", ins.self)
                 ELSE ROk(<<ifee - ofee, cfee>>, ins.self))))))

\* BlkIndexer::check_block_amount
RECURSIVE check_block_amount_from(_, _, _, _, _, _)
check_block_amount_from(self, height, b, i, tfee, cfee) ==
    IF i > Len(b.txs)
    THEN IF cfee > compute_reward(self.conf, height) + tfee
         THEN RErr("cfee > rfee + tfee", self)
         ELSE ROk(<<>>, self)
    ELSE Bind(check_tx_sign(self, b.txs[i]), LAMBDA sg :
         IF ~IsOk(sg) THEN sg
         ELSE Bind(check_tx_amount(sg.self, height, b.txs[i]), LAMBDA am :
              IF ~IsOk(am) THEN am
              ELSE IF ~is_valid_amount(tfee + am.val[1]) THEN RErr("tfee  error", am.self)
              ELSE IF ~is_valid_amount(cfee + am.val[2]) THEN RErr("cfee  error", am.self)
              ELSE check_block_amount_from(am.self, height, b, i + 1,
                                           tfee + am.val[1], cfee + am.val[2])))
\* a block whose amounts nothing checks
check_block_amount_any(self, height, b) == ROk(<<>>, self)
check_block_amount(self, height, b) ==
    IF ~is_valid_amount(compute_reward(self.conf, height)) THEN RErr("rfee  error", self)
    ELSE check_block_amount_from(self, height, b, 1, 0, 0)

(***************************************************************************)
(* Checker::check_value for TxIn, TxOut, Tx and Block.  The scripts built  *)
(* by new_script_cb/in/out pass Script::check, and the blocks modelled are *)
(* far below MAX_BLOCK_SIZE, so neither check can fail here.               *)
(***************************************************************************)
TxIn_check_value(inv) ==
    IF ~TxIn_is_coinbase(inv) /\ is_zero(inv.out) THEN Err("input out idx error")
    ELSE IF TxIn_is_coinbase(inv) /\ inv.script.typ # SCRIPT_TYPE_CB THEN Err("ScriptFmtErr")
    ELSE IF ~TxIn_is_coinbase(inv) /\ inv.script.typ # SCRIPT_TYPE_IN THEN Err("ScriptFmtErr")
    ELSE Ok(<<>>)
TxOut_check_value(outv) ==
    IF ~is_valid_amount(outv.value) THEN Err("InvalidAmount")
    ELSE IF outv.script.typ # SCRIPT_TYPE_OUT THEN Err("ScriptFmtErr")
    ELSE Ok(<<>>)
\* the loop of Tx::check_value over the inputs, seen being the out_keys met
RECURSIVE Tx_check_ins(_, _, _)
Tx_check_ins(tx, i, seen) ==
    IF i > Len(tx.ins) THEN Ok(<<>>)
    ELSE Bind(TxIn_check_value(tx.ins[i]), LAMBDA c :
         IF ~IsOk(c) THEN c
         ELSE IF TxIn_out_key(tx.ins[i]) \in seen THEN Err("InvalidTx,inout out rep")
         ELSE Tx_check_ins(tx, i + 1, seen \cup {TxIn_out_key(tx.ins[i])}))
\* the loop of Tx::check_value over the outputs
RECURSIVE Tx_check_outs(_, _, _)
Tx_check_outs(tx, i, outfee) ==
    IF i > Len(tx.outs) THEN Ok(<<>>)
    ELSE Bind(TxOut_check_value(tx.outs[i]), LAMBDA c :
         IF ~IsOk(c) THEN c
         ELSE IF ~is_valid_amount(tx.outs[i].value) THEN Err("out value not valid")
         ELSE IF ~is_valid_amount(outfee + tx.outs[i].value) THEN Err("outfee not valid")
         ELSE Tx_check_outs(tx, i + 1, outfee + tx.outs[i].value))
Tx_check_value(tx) ==
    IF Tx_is_coinbase(tx) /\ Len(tx.ins) # 1 THEN Err("InvalidTx")
    ELSE IF Len(tx.ins) = 0 THEN Err("InvalidTx,inputs empty")
    ELSE IF Len(tx.outs) = 0 THEN Err("InvalidTx,outs empty")
    ELSE Bind(Tx_check_ins(tx, 1, {}), LAMBDA ci :
         IF ~IsOk(ci) THEN ci ELSE Tx_check_outs(tx, 1, 0))

\* Block::check_coinbase
check_coinbase(b) ==
    IF Len(b.txs) < 1 THEN Err("txs count  < 1")
    ELSE IF Len(b.txs) > MAX_TX_COUNT THEN Err("txs count > MAX_TX_COUNT")
    ELSE IF Len(b.txs[1].ins) # 1 THEN Err("ins count == 0,coinbase miss")
    ELSE IF b.txs[1].ins[1].script.typ # SCRIPT_TYPE_CB THEN Err("ins type error,coinbase miss")
    ELSE Ok(<<>>)
\* every input of the block, in order
RECURSIVE BlockIns(_, _)
BlockIns(txs, i) == IF i > Len(txs) THEN <<>> ELSE txs[i].ins \o BlockIns(txs, i + 1)
\* a block whose inputs nothing compares
check_rep_cost_coin_off(b) == Ok(<<>>)
\* Block::check_rep_cost_coin: no out_key twice among the inputs of the block
check_rep_cost_coin(b) ==
    LET ins == BlockIns(b.txs, 1) IN
    IF \E i, j \in 1..Len(ins) : i < j /\ TxIn_out_key(ins[i]) = TxIn_out_key(ins[j])
    THEN Err("has rep cost exout")
    ELSE Ok(<<>>)
\* the loop of Block::check_value over the transactions
RECURSIVE Block_check_txs(_, _, _)
Block_check_txs(b, i, coinnum) ==
    IF i > Len(b.txs)
    THEN IF coinnum # 1 THEN Err("coinbase tx num error") ELSE Ok(<<>>)
    ELSE Bind(Tx_check_value(b.txs[i]), LAMBDA c :
         IF ~IsOk(c) THEN c
         ELSE Block_check_txs(b, i + 1,
                              IF Tx_is_coinbase(b.txs[i]) THEN coinnum + 1 ELSE coinnum))
Block_check_value(b, now) ==
    Bind(Header_check_value(b.header, now), LAMBDA hc :
    IF ~IsOk(hc) THEN hc
    ELSE Bind(check_coinbase(b), LAMBDA cc :
    IF ~IsOk(cc) THEN cc
    ELSE Bind(Block_compute_merkle(b), LAMBDA m :
    IF ~IsOk(m) THEN m
    ELSE IF m.val # b.header.merkle THEN Err("merkle tree id error")
    ELSE Bind(check_rep_cost_coin(b), LAMBDA rc :
    IF ~IsOk(rc) THEN rc
    ELSE Block_check_txs(b, 1, 0)))))

(***************************************************************************)
(* next_bits, write_tx_index, link, pop.                                   *)
(***************************************************************************)
\* BlkIndexer::attr::<BlkAttr>: the stored bytes decoded as a BlkAttr.  Only
\* the value under a block id is as long as a BlkAttr; the 32 bytes under a
\* height key and the 34 bytes under a txid end before the header does.
attr_BlkAttr(self, k) ==
    Bind(LevelDB_get(self.leveldb, k), LAMBDA r :
    IF ~IsOk(r) THEN r
    ELSE IF k[1] = "hasher" /\ "bhv" \in DOMAIN r.val THEN r
    ELSE Err("IoBufReadErr"))
\* BlkIndexer::next_bits
next_bits(self) ==
    Bind(best(self), LAMBDA top :
    IF ~IsOk(top) THEN Ok(compact(self.conf.pow_limit))
    ELSE IF top.val.height = 0 THEN Ok(compact(self.conf.pow_limit))
    ELSE Bind(attr_BlkAttr(self, id_key(top.val.id)), LAMBDA lst :
         IF ~IsOk(lst) THEN lst
         ELSE IF (top.val.height + 1) % self.conf.pow_span # 0 THEN Ok(lst.val.bhv.bits)
         ELSE Bind(attr_BlkAttr(self, height_key(top.val.height + 1
                                                        - self.conf.pow_span)), LAMBDA prev :
              IF ~IsOk(prev) THEN prev
              ELSE Ok(compute_bits(self.conf.pow_limit, self.conf.pow_time,
                                   Header_get_timestamp(lst.val.bhv),
                                   Header_get_timestamp(prev.val.bhv),
                                   lst.val.bhv.bits)))))

\* IBatch::put_attr: the coin stored under its key
IBatch_put_attr(batch, coin) == IBatch_put(batch, CoinAttr_key(coin), CoinAttr_value(coin))

\* inputs whose coins are left in the index
write_tx_index_ins_keep(self, batch, top, tx, i) == ROk(batch, self)
\* BlkIndexer::write_tx_index, the loop over the inputs: val is the batch
RECURSIVE write_tx_index_ins(_, _, _, _, _)
write_tx_index_ins(self, batch, top, tx, i) ==
    IF i > Len(tx.ins) THEN ROk(batch, self)
    ELSE IF TxIn_is_coinbase(tx.ins[i]) THEN write_tx_index_ins(self, batch, top, tx, i + 1)
    ELSE Bind(get_txin_ref_coin(self, tx.ins[i]), LAMBDA coin :
         IF ~IsOk(coin) THEN coin
         ELSE IF ~CoinAttr_is_valid(coin.val, top.height)
         THEN RErr("ref coin not valid", coin.self)
         ELSE write_tx_index_ins(coin.self,
                                 IBatch_del(batch, CoinAttr_key(coin.val),
                                            CoinAttr_value(coin.val)),
                                 top, tx, i + 1))
\* outputs that get no coin record
write_tx_index_outs_none(batch, top, tx, i) == Ok(batch)
\* the loop over the outputs
RECURSIVE write_tx_index_outs(_, _, _, _)
write_tx_index_outs(batch, top, tx, i) ==
    IF i > Len(tx.outs) THEN Ok(batch)
    ELSE Bind(TxOut_get_address(tx.outs[i]), LAMBDA addr :
         IF ~IsOk(addr) THEN addr
         ELSE write_tx_index_outs(
                  IBatch_put_attr(batch,
                      [cpk |-> addr.val, tx |-> Tx_id(tx), idx |-> i - 1,
                       value |-> tx.outs[i].value,
                       flags |-> IF Tx_is_coinbase(tx) THEN COIN_ATTR_FLAGS_COINBASE ELSE 0,
                       height |-> top.height]),
                  top, tx, i + 1))
write_tx_index(self, batch, top, tx) ==
    Bind(write_tx_index_ins(self, batch, top, tx, 1), LAMBDA ins :
    IF ~IsOk(ins) THEN ins
    ELSE Bind(write_tx_index_outs(ins.val, top, tx, 1), LAMBDA outs :
         IF ~IsOk(outs) THEN RErr(outs.err, ins.self) ELSE ROk(outs.val, ins.self)))

\* the loop of link over the transactions: val is the batch
RECURSIVE link_txs(_, _, _, _, _)
link_txs(self, batch, next, b, i) ==
    IF i > Len(b.txs) THEN ROk(batch, self)
    ELSE Bind(Tx_id(b.txs[i]), LAMBDA txid :
         IF LevelDB_has(self.leveldb, id_key(txid))
         THEN RErr("txid exists block index", self)
         ELSE Bind(write_tx_index(self,
                           IBatch_put(batch, id_key(txid),
                                      [blk |-> next.id, idx |-> i - 1]),
                           next, b.txs[i]), LAMBDA w :
              IF ~IsOk(w) THEN w ELSE link_txs(w.self, w.val, next, b, i + 1)))

\* a commit whose failing write has applied the entries of the batch
link_commit_torn(self, batch, next, b, io) ==
    IF io = "blk" THEN RErr("blk push error", self)
    ELSE Bind([self EXCEPT !.blk = Store_push(self.blk, Block_bytes(b)).st], LAMBDA s1 :
         IF io = "rev" THEN RErr("rev push error", s1)
         ELSE Bind(Store_push(s1.rev, IBatch_reverse(batch)), LAMBDA pr :
              Bind(IBatch_put(batch, id_key(next.id),
                              [bhv |-> b.header, hhv |-> next.height,
                               blk |-> Store_push(self.blk, Block_bytes(b)).attr,
                               rev |-> pr.attr]), LAMBDA full :
              Bind([s1 EXCEPT !.rev = pr.st, !.leveldb = LevelDB_write(@, full)], LAMBDA s2 :
                   IF io = "write" THEN RErr("leveldb write error", s2) ELSE ROk(next, s2)))))

\* the tail of link once the batch holds Best, the height entry, the
\* transaction attributes and the coins: the block and the inverse batch are
\* pushed to the segment stores, the block attribute joins the batch, and
\* the batch is written.  io names the storage call that fails, if any.
link_commit(self, batch, next, b, io) ==
    Bind(IBatch_reverse(batch), LAMBDA revwb :
        Bind(Store_push(self.blk, Block_bytes(b)), LAMBDA pb : IF io = "blk" THEN RErr("blk push error", self)
       ELSE IF pb.err # "" THEN RErr(pb.err, self)
       ELSE Bind([self EXCEPT !.blk = pb.st], LAMBDA s1 :
        Bind(Store_push(s1.rev, revwb), LAMBDA pr : IF io = "rev" THEN RErr("rev push error", s1)
               ELSE IF pr.err # "" THEN RErr(pr.err, s1)
               ELSE Bind([s1 EXCEPT !.rev = pr.st], LAMBDA s2 :
        Bind([bhv |-> b.header, hhv |-> next.height,
                                 blk |-> pb.attr, rev |-> pr.attr], LAMBDA attr :
        Bind(IBatch_put(batch, id_key(next.id), attr), LAMBDA full : IF io = "write" THEN RErr("leveldb write error", s2)
                       ELSE ROk(next, [s2 EXCEPT !.leveldb = LevelDB_write(@, full)]))))))))

\* link after the header, difficulty and position checks
link_body(self, batch, next, b, io) ==
    Bind(check_block_amount(self, next.height, b), LAMBDA am :
    IF ~IsOk(am) THEN am
    ELSE Bind(link_txs(am.self,
                             IBatch_put(batch, height_key(next.height), next.id),
                             next, b, 1), LAMBDA txs :
         IF ~IsOk(txs) THEN txs
         ELSE link_commit(txs.self, txs.val, next, b, io)))

\* link without the test of the proof of work
link_unproven(self, b, now, io) ==
    Bind(Block_id(b), LAMBDA id :
        Bind(Block_check_value(b, now), LAMBDA cv : IF ~IsOk(cv) THEN RErr(cv.err, self)
       ELSE IF LevelDB_has(self.leveldb, id_key(id)) THEN RErr("block exists", self)
       ELSE Bind(next_bits(self), LAMBDA bits :
       IF ~IsOk(bits) THEN RErr(bits.err, self)
       ELSE IF b.header.bits # bits.val THEN RErr("link block bits error", self)
       ELSE Bind(best(self), LAMBDA top :
       IF ~IsOk(top)
       THEN IF id # self.conf.genesis THEN RErr("first block not config genesis", self)
            ELSE link_body(self,
                           IBatch_put(IBatch_new(TRUE), BEST_KEY, [id |-> id, height |-> 0]),
                           [id |-> id, height |-> 0], b, io)
       ELSE Bind(get(self, id_key(top.val.id)), LAMBDA prev :
            IF ~IsOk(prev) THEN prev
            ELSE IF b.header.prev # Block_id(prev.val)
            THEN RErr("block prev != prev.id", prev.self)
            ELSE Bind([id |-> id, height |-> top.val.height + 1], LAMBDA next :
                 link_body(prev.self,
                           IBatch_set(IBatch_new(TRUE), BEST_KEY, next, top.val),
                           next, b, io)))))))
\* BlkIndexer::link.  now is util::timestamp() at the call.
link(self, b, now, io) ==
    Bind(Block_id(b), LAMBDA id :
        Bind(Block_check_value(b, now), LAMBDA cv : IF ~IsOk(cv) THEN RErr(cv.err, self)
       ELSE IF LevelDB_has(self.leveldb, id_key(id)) THEN RErr("block exists", self)
       ELSE IF ~verify_pow(id, self.conf.pow_limit, b.header.bits)
       THEN RErr("block bits error", self)
       ELSE Bind(next_bits(self), LAMBDA bits :
       IF ~IsOk(bits) THEN RErr(bits.err, self)
       ELSE IF b.header.bits # bits.val THEN RErr("link block bits error", self)
       ELSE Bind(best(self), LAMBDA top :
       IF ~IsOk(top)
       THEN IF id # self.conf.genesis THEN RErr("first block not config genesis", self)
            ELSE link_body(self,
                           IBatch_put(IBatch_new(TRUE), BEST_KEY, [id |-> id, height |-> 0]),
                           [id |-> id, height |-> 0], b, io)
       ELSE Bind(get(self, id_key(top.val.id)), LAMBDA prev :
            IF ~IsOk(prev) THEN prev
            ELSE IF b.header.prev # Block_id(prev.val)
            THEN RErr("block prev != prev.id", prev.self)
            ELSE Bind([id |-> id, height |-> top.val.height + 1], LAMBDA next :
                 link_body(prev.self,
                           IBatch_set(IBatch_new(TRUE), BEST_KEY, next, top.val),
                           next, b, io)))))))

\* pop without the test for the genesis block
pop_any_tip(self, io) ==
    Bind(best(self), LAMBDA top :
    IF ~IsOk(top) THEN RErr(top.err, self)
    ELSE Bind(id_key(top.val.id), LAMBDA idkey :
        Bind(LevelDB_get(self.leveldb, idkey), LAMBDA attr : IF ~IsOk(attr) THEN RErr(attr.err, self)
            ELSE Bind(Store_pull(self.blk, attr.val.blk), LAMBDA bbuf :
            IF ~IsOk(bbuf) THEN RErr(bbuf.err, self)
            ELSE Bind(Block_decode(bbuf.val), LAMBDA b :
            IF ~IsOk(b) THEN RErr(b.err, self)
            ELSE Bind(Store_pull(self.rev, attr.val.rev), LAMBDA rbuf :
            IF ~IsOk(rbuf) THEN RErr(rbuf.err, self)
            ELSE Bind(IBatch_try_from(rbuf.val), LAMBDA parsed :
            IF ~IsOk(parsed) THEN RErr(parsed.err, self)
            ELSE Bind(IBatch_del_none(parsed.val, idkey), LAMBDA batch :
        Bind([self EXCEPT !.cache = BlkCache_pop(@, idkey)], LAMBDA s1 : IF io = "write" THEN RErr("leveldb write error", s1)
                    ELSE ROk(b.val, [s1 EXCEPT !.leveldb = LevelDB_write(@, batch)]))))))))))
\* BlkIndexer::pop
pop(self, io) ==
    Bind(best(self), LAMBDA top :
    IF ~IsOk(top) THEN RErr(top.err, self)
    ELSE IF top.val.id = self.conf.genesis THEN RErr("genesis block can't pop", self)
    ELSE Bind(id_key(top.val.id), LAMBDA idkey :
        Bind(LevelDB_get(self.leveldb, idkey), LAMBDA attr : IF ~IsOk(attr) THEN RErr(attr.err, self)
            ELSE Bind(Store_pull(self.blk, attr.val.blk), LAMBDA bbuf :
            IF ~IsOk(bbuf) THEN RErr(bbuf.err, self)
            ELSE Bind(Block_decode(bbuf.val), LAMBDA b :
            IF ~IsOk(b) THEN RErr(b.err, self)
            ELSE Bind(Store_pull(self.rev, attr.val.rev), LAMBDA rbuf :
            IF ~IsOk(rbuf) THEN RErr(rbuf.err, self)
            ELSE Bind(IBatch_try_from(rbuf.val), LAMBDA parsed :
            IF ~IsOk(parsed) THEN RErr(parsed.err, self)
            ELSE Bind(IBatch_del_none(parsed.val, idkey), LAMBDA batch :
        Bind([self EXCEPT !.cache = BlkCache_pop(@, idkey)], LAMBDA s1 : IF io = "write" THEN RErr("leveldb write error", s1)
                    ELSE ROk(b.val, [s1 EXCEPT !.leveldb = LevelDB_write(@, batch)]))))))))))

(***************************************************************************)
(* TxPool: byid maps a txid to its transaction, byfee maps a fee to the    *)
(* transactions admitted with it, in order of arrival.                     *)
(***************************************************************************)
TxPool_default == [byid |-> <<>>, byfee |-> <<>>]
\* TxPool::is_cost_coin
is_cost_coin(p, id, idx) ==
    \E k \in DOMAIN p.byid : \E i \in 1..Len(p.byid[k].ins) :
        p.byid[k].ins[i].out = id /\ p.byid[k].ins[i].idx = idx
RECURSIVE SumOuts(_, _)
SumOuts(outs, i) == IF i > Len(outs) THEN 0 ELSE outs[i].value + SumOuts(outs, i + 1)
\* TxPool::check_value
TxPool_check_value(p, tx) ==
    IF Len(tx.ins) = 0 \/ Len(tx.outs) = 0 THEN Err("ins or outs empy")
    ELSE IF Tx_is_coinbase(tx) THEN Err("txpool don't have coinbase tx")
    ELSE IF id_key(Tx_id(tx)) \in DOMAIN p.byid THEN Err("tx exists")
    ELSE IF \E i \in 1..Len(tx.ins) : is_cost_coin(p, tx.ins[i].out, tx.ins[i].idx)
    THEN Err("ref out is cost")
    ELSE IF ~is_valid_amount(SumOuts(tx.outs, 1)) THEN Err("out fee error")
    ELSE Ok(<<>>)
\* TxPool::push
TxPool_push(p, tx, fee) ==
    Bind(TxPool_check_value(p, tx), LAMBDA c :
        Bind(id_key(Tx_id(tx)), LAMBDA key : IF ~IsOk(c) THEN [err |-> c.err, val |-> <<>>, pool |-> p]
       ELSE [err |-> "", val |-> Tx_id(tx),
             pool |-> [byid |-> [k \in DOMAIN p.byid \cup {key} |->
                                    IF k = key THEN tx ELSE p.byid[k]],
                       byfee |-> [f \in DOMAIN p.byfee \cup {fee} |->
                                    IF f \in DOMAIN p.byfee
                                    THEN IF f = fee THEN Append(p.byfee[f], tx)
                                         ELSE p.byfee[f]
                                    ELSE <<tx>>]]]))
\* Vec::retain with the predicate of TxPool::remove, which keeps the
\* transactions whose id equals the id removed
RECURSIVE retain_id(_, _)
retain_id(txs, id) ==
    IF Len(txs) = 0 THEN <<>>
    ELSE IF Tx_id(Head(txs)) = id THEN <<Head(txs)>> \o retain_id(Tail(txs), id)
    ELSE retain_id(Tail(txs), id)
\* TxPool::remove
TxPool_remove(p, id) ==
    Bind(id_key(id), LAMBDA key :
    IF key \notin DOMAIN p.byid THEN [err |-> "id tx miss", val |-> <<>>, pool |-> p]
    ELSE [err |-> "", val |-> p.byid[key],
          pool |-> [byid |-> [k \in DOMAIN p.byid \ {key} |-> p.byid[k]],
                    byfee |-> [f \in DOMAIN p.byfee |-> retain_id(p.byfee[f], id)]]])
\* TxPool::iter drained: TxPoolIter::next takes the fees of by_fee from the
\* highest down and yields the transactions of each in the order of its
\* vector
RECURSIVE TxPoolIter_from(_, _)
TxPoolIter_from(p, fees) ==
    IF fees = {} THEN <<>>
    ELSE Bind(CHOOSE f \in fees : \A g \in fees : g <= f, LAMBDA top :
         p.byfee[top] \o TxPoolIter_from(p, fees \ {top}))
TxPool_iter(p) == TxPoolIter_from(p, DOMAIN p.byfee)
\* TxPool::coins: the outputs of the pending transactions that pay addr, as
\* coins with the from-mempool flag and height u32::MAX, written -1 here.
\* The vector follows the order of the hash map; its elements are kept.
TxPool_coins(p, addr) ==
    UNION {{[cpk |-> addr, tx |-> Tx_id(p.byid[k]), idx |-> j - 1,
             value |-> p.byid[k].outs[j].value,
             flags |-> COIN_ATTR_FLAGS_TXPOOL, height |-> 0 - 1] :
               j \in {n \in 1..Len(p.byid[k].outs) :
                         TxOut_get_address(p.byid[k].outs[n]).val = addr}} :
           k \in DOMAIN p.byid}

\* the loop of get_tx_transaction_fee over the inputs: val is ifee
RECURSIVE tx_fee_ins(_, _, _, _)
tx_fee_ins(self, tx, i, ifee) ==
    IF i > Len(tx.ins) THEN ROk(ifee, self)
    ELSE Bind(get_txin_ref_txout(self, tx.ins[i]), LAMBDA outv :
         IF ~IsOk(outv) THEN outv
         ELSE tx_fee_ins(outv.self, tx, i + 1, ifee + outv.val.value))
\* BlkIndexer::get_tx_transaction_fee
get_tx_transaction_fee(self, tx) ==
    IF Tx_is_coinbase(tx) THEN ROk(0, self)
    ELSE Bind(tx_fee_ins(self, tx, 1, 0), LAMBDA ins :
         IF ~IsOk(ins) THEN ins
         ELSE Bind(SumOuts(tx.outs, 1), LAMBDA ofee :
              IF ~is_valid_amount(ins.val) \/ ~is_valid_amount(ofee)
              THEN RErr("ifee or ofee error", ins.self)
              ELSE IF ofee > ins.val THEN RErr("tx out fee > tx input fee", ins.self)
              ELSE IF ~is_valid_amount(ins.val - ofee) THEN RErr("tfee error", ins.self)
              ELSE ROk(ins.val - ofee, ins.self)))

\* append pushing every transaction under the fee 0
append_nofee(self, tx) ==
    Bind(Tx_check_value(tx), LAMBDA cv :
    IF ~IsOk(cv) THEN RErr(cv.err, self)
    ELSE Bind(best(self), LAMBDA top :
    IF ~IsOk(top) THEN RErr(top.err, self)
    ELSE Bind(check_tx_sign(self, tx), LAMBDA sg :
    IF ~IsOk(sg) THEN sg
    ELSE Bind(check_tx_amount(sg.self, top.val.height + 1, tx), LAMBDA am :
    IF ~IsOk(am) THEN am
    ELSE Bind(get_tx_transaction_fee(am.self, tx), LAMBDA fee :
    IF ~IsOk(fee) THEN fee
    ELSE Bind(TxPool_push(fee.self.pool, tx, 0), LAMBDA ps :
         IF ps.err # "" THEN RErr(ps.err, fee.self)
         ELSE ROk(ps.val, [fee.self EXCEPT !.pool = ps.pool])))))))
\* BlkIndexer::append
append(self, tx) ==
    Bind(Tx_check_value(tx), LAMBDA cv :
    IF ~IsOk(cv) THEN RErr(cv.err, self)
    ELSE Bind(best(self), LAMBDA top :
    IF ~IsOk(top) THEN RErr(top.err, self)
    ELSE Bind(check_tx_sign(self, tx), LAMBDA sg :
    IF ~IsOk(sg) THEN sg
    ELSE Bind(check_tx_amount(sg.self, top.val.height + 1, tx), LAMBDA am :
    IF ~IsOk(am) THEN am
    ELSE Bind(get_tx_transaction_fee(am.self, tx), LAMBDA fee :
    IF ~IsOk(fee) THEN fee
    ELSE Bind(TxPool_push(fee.self.pool, tx, fee.val), LAMBDA ps :
         IF ps.err # "" THEN RErr(ps.err, fee.self)
         ELSE ROk(ps.val, [fee.self EXCEPT !.pool = ps.pool])))))))

\* BlkIndexer::remove
remove(self, id) ==
    Bind(TxPool_remove(self.pool, id), LAMBDA r :
    IF r.err # "" THEN RErr(r.err, self)
    ELSE ROk(r.val, [self EXCEPT !.pool = r.pool]))
\* BlkIndexer::coins: the coin records stored under the address, each with
\* its key filled in, and after them the coins of the pool.  The elements
\* of the vector are kept, not their order.
coins(self, addr) ==
    {[cpk |-> k[2], tx |-> k[3], idx |-> k[4],
      value |-> LevelDB_get(self.leveldb, k).val.value,
      flags |-> LevelDB_get(self.leveldb, k).val.flags,
      height |-> LevelDB_get(self.leveldb, k).val.height] :
        k \in {x \in LevelDB_keys(self.leveldb) : is_coin_key(x) /\ x[2] = addr}}
    \cup TxPool_coins(self.pool, addr)

(***************************************************************************)
(* Config and the blocks a node builds.                                    *)
(***************************************************************************)
\* bounds of the model: the halving interval of the configuration, the room
\* of the block store beyond what the initial chain takes, the size the
\* pool may reach
Halving == 10
MaxStore == 5
MaxPool == 1
MaxPop == 1
SpanShort == 4
MaxPoolTx == 3
MaxStale == 1
NumThreads == 2
MaxFile == 3
MaxSeg == 16
\* the pow limit of the configuration and the fee the transactions leave
PowLimit == Pow2(29) - 1
Fee == COIN \div 1000
\* Config::test
PowTime == 1209600
PowSpan == 2016

\* the two accounts of the runs: A mines (Config.acc), B receives
AccA == [keys |-> 1, sigs |-> "ok"]
AccB == [keys |-> 2, sigs |-> "ok"]
\* the coinbase data of the genesis block, of the blocks after it, and of a
\* second coinbase; a digest no block or transaction has
GenesisData == <<1>>
NoData == <<0>>
OtherData == <<2>>
NeverSeen == Hash(<<0>>)
\* the wall clock while the runs take place, and the time a block of
\* height h was built at
Now == BASE_UTC_UNIX_TIME + 1000
BuiltAt(h) == BASE_UTC_UNIX_TIME + h

NewTxOut(value, acc) ==
    [value |-> value, script |-> new_script_out(Account_get_address(acc))]
\* Config::new_coinbase with the output value v
Coinbase(h, s, acc, v) ==
    [ver |-> 1,
     ins |-> <<[out |-> Zero, idx |-> 0, script |-> new_script_cb(h, s), seq |-> 0]>>,
     outs |-> <<NewTxOut(v, acc)>>]
\* Config::new_coinbase
new_coinbase(c, h, s, acc) == Coinbase(h, s, acc, compute_reward(c, h))
\* Header::set_timestamp and set_ver on a default header, as Config::new_block
\* does: the multiple of BASE_UTC_UNIX_TIME goes to the high half of ver
NewHeader(c, p, bits, now, nonce) ==
    [ver |-> block_version(now \div BASE_UTC_UNIX_TIME, c.ver), prev |-> p,
     merkle |-> Zero, time |-> now % BASE_UTC_UNIX_TIME, bits |-> bits,
     nonce |-> nonce]
\* Block::finish
Block_finish(b) ==
    [b EXCEPT !.header.merkle =
        IF Len(b.txs) = 0 THEN Zero ELSE Block_compute_merkle(b).val]
\* the loop of Config::create_block: the nonce is stepped until the id meets
\* the target of the header's bits
RECURSIVE Mine(_, _)
Mine(c, b) ==
    IF verify_pow(Block_id(b), c.pow_limit, b.header.bits) THEN b
    ELSE Mine(c, [b EXCEPT !.header.nonce = @ + 1])
\* a block whose id misses the target
RECURSIVE Unmined(_, _)
Unmined(c, b) ==
    IF ~verify_pow(Block_id(b), c.pow_limit, b.header.bits) THEN b
    ELSE Unmined(c, [b EXCEPT !.header.nonce = @ + 1])
\* a finished block with the given transactions, not mined yet
RawBlock(c, p, bits, now, txs) ==
    Block_finish(NewBlock(NewHeader(c, p, bits, now, 0), txs))
\* Config::create_block
create_block(c, p, h, bits, cbstr) ==
    Mine(c, RawBlock(c, p, bits, BuiltAt(h), <<new_coinbase(c, h, cbstr, c.acc)>>))

\* BlkIndexer::new_block
new_block(self, cbstr) ==
    Bind(best(self), LAMBDA top :
    IF ~IsOk(top) THEN RErr(top.err, self)
    ELSE Bind(next_bits(self), LAMBDA bits :
         IF ~IsOk(bits) THEN RErr(bits.err, self)
         ELSE ROk(create_block(self.conf, top.val.id, top.val.height + 1, bits.val, cbstr),
                  self)))

\* Config::test, genesis still to be set
Config0 ==
    [dir |-> "fresh", pow_limit |-> PowLimit, genesis |-> Zero, pow_time |-> PowTime,
     pow_span |-> PowSpan, halving |-> Halving, ver |-> 1, acc |-> AccA]
GenesisBlock == create_block(Config0, Zero, 0, compact(PowLimit), GenesisData)
Config_test == [Config0 EXCEPT !.genesis = Block_id(GenesisBlock)]
\* Config::test with a retarget every SpanShort blocks, pow_time being the
\* time the blocks below the first boundary take
Config_span ==
    [Config_test EXCEPT !.dir = "short", !.pow_span = SpanShort,
                        !.pow_time = BuiltAt(SpanShort - 1) - BuiltAt(0)]

(***************************************************************************)
(* The data directories the runs open: a fresh one, and the one a chain of *)
(* coinbase-only blocks left, one block short of the height at which the   *)
(* first coinbase matures.                                                 *)
(***************************************************************************)
\* BlkIndexer::new over a directory holding the index base and the segment
\* logs blkbase and revbase
BlkIndexer_new(c, base, blkbase, revbase) ==
    [leveldb |-> LevelDB_open(base), cache |-> <<>>, blk |-> Store_new(blkbase),
     rev |-> Store_new(revbase), pool |-> TxPool_default, conf |-> c]

\* the header of the block the index has at height h
HeaderAt(self, h) ==
    Block_decode(Store_pull(self.blk,
        LevelDB_get(self.leveldb,
                    id_key(LevelDB_get(self.leveldb, height_key(h)).val)).val.blk).val).val.header
\* the bits of the retarget rule for the next block: the pow limit below
\* height 2, the bits of the tip off a boundary, and at a boundary those
\* computed from the times of the tip and of the block pow_span below the
\* next height
RetargetBits(self) ==
    IF ~IsOk(best(self)) \/ best(self).val.height = 0
    THEN compact(self.conf.pow_limit)
    ELSE Bind(HeaderAt(self, best(self).val.height), LAMBDA tip :
         IF next_height(self) % self.conf.pow_span # 0 THEN tip.bits
         ELSE compute_bits(self.conf.pow_limit, self.conf.pow_time,
                           Header_get_timestamp(tip),
                           Header_get_timestamp(
                               HeaderAt(self, next_height(self) - self.conf.pow_span)),
                           tip.bits))
\* the bits a miner gives the next block: those next_bits returns, and the
\* bits of the retarget rule where it returns none
MinerBits(self) ==
    IF IsOk(next_bits(self)) THEN next_bits(self).val ELSE RetargetBits(self)
\* the block Config::create_block builds on top of the indexer's best block
NextBlock(self) ==
    create_block(self.conf,
                 IF IsOk(best(self)) THEN best(self).val.id ELSE Zero,
                 next_height(self), MinerBits(self),
                 IF IsOk(best(self)) THEN NoData ELSE GenesisData)

\* a chain of coinbase-only blocks up to height tip, each linked by link
RECURSIVE Grow(_, _)
Grow(self, tip) ==
    IF next_height(self) > tip THEN self
    ELSE Grow(link(self, NextBlock(self), Now, "ok").self, tip)
\* the height of the grown chain: the first at which a coinbase has matured
GrownTip == COINBASE_MATURITY
\* the grown chain, built a stretch of blocks at a time
Stretch == COINBASE_MATURITY \div 5
Grown1 == Grow(BlkIndexer_new(Config_test, <<>>, <<>>, <<>>), Stretch - 1)
Grown2 == Grow(Grown1, 2 * Stretch - 1)
Grown3 == Grow(Grown2, 3 * Stretch - 1)
Grown4 == Grow(Grown3, 4 * Stretch - 1)
Grown == Grow(Grown4, GrownTip)
GrownIndex == Grown.leveldb.put
GrownBlk == Grown.blk.log
GrownRev == Grown.rev.log

\* the chain Config::test hands to a test: the genesis block linked
Tested == Grow(BlkIndexer_new(Config_test, <<>>, <<>>, <<>>), 0)
\* the chain of the short-span configuration, two blocks short of its first
\* boundary
ShortTip == SpanShort - 2
Short == Grow(BlkIndexer_new(Config_span, <<>>, <<>>, <<>>), ShortTip)

\* the grown chain continued until MaxPoolTx coinbases have matured
LongTip == GrownTip + MaxPoolTx - 1
Long == Grow(Grown, LongTip)

\* what a directory holds
DirIndex(dir) ==
    IF dir = "grown" THEN GrownIndex
    ELSE IF dir = "short" THEN Short.leveldb.put
    ELSE IF dir = "long" THEN Long.leveldb.put
    ELSE IF dir = "test" THEN Tested.leveldb.put ELSE <<>>
DirBlk(dir) ==
    IF dir = "grown" THEN GrownBlk
    ELSE IF dir = "short" THEN Short.blk.log
    ELSE IF dir = "long" THEN Long.blk.log
    ELSE IF dir = "test" THEN Tested.blk.log ELSE <<>>
DirRev(dir) ==
    IF dir = "grown" THEN GrownRev
    ELSE IF dir = "short" THEN Short.rev.log
    ELSE IF dir = "long" THEN Long.rev.log
    ELSE IF dir = "test" THEN Tested.rev.log ELSE <<>>
\* the height of the best block a directory holds, -1 if it holds none
DirHeight(dir) ==
    IF dir = "grown" THEN GrownTip
    ELSE IF dir = "short" THEN ShortTip
    ELSE IF dir = "long" THEN LongTip
    ELSE IF dir = "test" THEN 0 ELSE 0 - 1

(***************************************************************************)
(* State.                                                                  *)
(***************************************************************************)
VARIABLES
    leveldb,  \* BlkIndexer.leveldb: the writes made to the index since it
              \* was opened, [put, del]
    cache,    \* BlkIndexer.cache
    blk,      \* BlkIndexer.blk: what was appended to the block segments
    rev,      \* BlkIndexer.rev: what was appended to the inverse segments
    pool,     \* BlkIndexer.pool
    conf,     \* BlkIndexer.conf, dir naming the data directory
    disk,     \* what the data directory held when the indexer was opened:
              \* the index and the two segment logs, which no call rewrites
    last,     \* the last call made on the chain and the error it returned
    rwlock,   \* the RwLock of Chain: the thread holding it for writing (0 if
              \* none) and the threads holding it for reading
    thr,      \* the threads calling the Chain: where each is in its call,
              \* the block it has built, the blocks it has linked
    store,    \* a Store used by itself: its fields
    files,    \* the directory of that store: file name -> bytes
    locs,     \* the records pushed to that directory, in order: the Attr
              \* push returned and the bytes pushed
    eval,     \* the last call made outside the chain: the function, its
              \* argument and what it returned
    pubsub    \* a PubSub used by itself: its channels, the jobs of its
              \* thread pool and what its callbacks were called with
vars == <<leveldb, cache, blk, rev, pool, conf, disk, last, rwlock, thr,
          store, files, locs, eval, pubsub>>

\* no store and no call: the chain is used alone
NoStore == [idx |-> 0, max |-> 0, dir |-> "", ext |-> "", cache |-> <<>>]
NoCall == [fn |-> "", arg |-> <<>>, res |-> <<>>]
\* PubSub::new: no channel, no job in the pool, nothing delivered
NoPubSub ==
    [channels |-> <<>>, next_id |-> 0, jobs |-> <<>>, subs |-> {}, cancelled |-> {},
     sent |-> <<>>, delivered |-> <<>>]
ChainOnly ==
    store = NoStore /\ files = <<>> /\ locs = <<>> /\ eval = NoCall /\ pubsub = NoPubSub

\* the indexer, its database and stores over what the directory held
Self ==
    [leveldb |-> [base |-> disk.index, put |-> leveldb.put, del |-> leveldb.del],
     cache |-> cache,
     blk |-> [base |-> disk.blk, log |-> blk],
     rev |-> [base |-> disk.rev, log |-> rev],
     pool |-> pool, conf |-> conf]
\* RwLock::new, and threads that have called nothing yet
Unlocked == [writer |-> 0, readers |-> {}]
Threads == 1..NumThreads
Idle == [pc |-> "idle", call |-> "", arg |-> <<>>, res |-> <<>>, mine |-> <<>>, done |-> {}]
\* the height the pops of the runs stop at: MaxPop below the one the
\* directory held
Floor(self) == DirHeight(self.conf.dir) - MaxPop

(***************************************************************************)
(* What the callers hand to link, append and remove.  The blocks are the   *)
(* block a miner would build next and single departures from it; the       *)
(* transactions spend outputs of the chain.                                *)
(***************************************************************************)
\* the block the segment store holds for a block id, and for a height
StoredBlock(self, id) ==
    Block_decode(Store_pull(self.blk,
                            LevelDB_get(self.leveldb, id_key(id)).val.blk).val).val
BlockAtHeight(self, h) == StoredBlock(self, LevelDB_get(self.leveldb, height_key(h)).val)
TipHeight(self) == best(self).val.height

\* an outpoint with the output it names
OutPoint(tx, i) == [tx |-> Tx_id(tx), idx |-> i - 1, out |-> tx.outs[i]]
TxOutPoints(tx) == {OutPoint(tx, i) : i \in 1..Len(tx.outs)}
\* the coinbase output of the block at height h
CoinbaseOutPoint(self, h) == OutPoint(BlockAtHeight(self, h).txs[1], 1)
\* outpoints the callers spend from: the coinbase outputs of heights 0 and 1
\* and of the best block, and every output of the non-coinbase transactions
\* of the blocks the runs have linked
KnownOutPoints(self) ==
    IF ~IsOk(best(self)) THEN {}
    ELSE {CoinbaseOutPoint(self, h) : h \in {0, 1, TipHeight(self)} \cap 0..TipHeight(self)}
         \cup UNION {UNION {TxOutPoints(BlockAtHeight(self, h).txs[i]) :
                                i \in 2..Len(BlockAtHeight(self, h).txs)} :
                        h \in (Floor(self) + 1)..TipHeight(self) \cap 0..TipHeight(self)}
\* an outpoint of a transaction never seen, and o with an index past the end
UnknownOutPoint == [tx |-> NeverSeen, idx |-> 0, out |-> NewTxOut(COIN, AccA)]
PastEnd(o) == [o EXCEPT !.idx = @ + 5]

\* the account that owns an output, with its signatures in the state sigs
Owner(out, sigs) ==
    [keys |-> (CHOOSE a \in {AccA, AccB} : Account_get_address(a) = out.script.hasher).keys,
     sigs |-> sigs]
Other(acc) == IF acc.keys = AccA.keys THEN AccB ELSE AccA
NewTxIn(o, acc) == [out |-> o.tx, idx |-> o.idx, script |-> new_script_in(acc), seq |-> 0]
\* o spent by its owner: half to B, the rest less the fee back to A
Spend(o) ==
    [ver |-> 1, ins |-> <<NewTxIn(o, Owner(o.out, "ok"))>>,
     outs |-> <<NewTxOut(o.out.value \div 2, AccB),
                NewTxOut(o.out.value - (o.out.value \div 2) - Fee, AccA)>>]
\* o spent by its owner, all of it less the fee to B
SpendAll(o) ==
    [ver |-> 1, ins |-> <<NewTxIn(o, Owner(o.out, "ok"))>>,
     outs |-> <<NewTxOut(o.out.value - Fee, AccB)>>]
\* transactions spending o that some check has to turn down: signed by
\* another account, with a bad signature, paying out more than o holds,
\* paying out nothing, and naming o twice
BadSpends(o) ==
    { [Spend(o) EXCEPT !.ins = <<NewTxIn(o, Other(Owner(o.out, "ok")))>>],
      [Spend(o) EXCEPT !.ins = <<NewTxIn(o, Owner(o.out, "bad"))>>],
      [Spend(o) EXCEPT !.outs = <<NewTxOut(o.out.value + 1, AccB)>>],
      [Spend(o) EXCEPT !.outs = <<NewTxOut(0, AccB)>>],
      [Spend(o) EXCEPT !.ins = <<NewTxIn(o, Owner(o.out, "ok")),
                                 NewTxIn(o, Owner(o.out, "ok"))>>] }

\* the blocks handed to link on a fresh directory: the block a miner would
\* build, the best block again, and departures from the miner's block in
\* its coinbase, its transaction list and its header
MalformedBlocks(self) ==
    LET c == self.conf
        h == next_height(self)
        p == IF IsOk(best(self)) THEN best(self).val.id ELSE Zero
        bits == MinerBits(self)
        s == IF h = 0 THEN GenesisData ELSE NoData
        rw == compute_reward(c, h)
        cb == new_coinbase(c, h, s, c.acc)
        cbv(v) == Coinbase(h, s, c.acc, v)
        R(txs) == RawBlock(c, p, bits, BuiltAt(h), txs)
        B(txs) == Mine(c, R(txs))
    IN  { B(<<cbv(rw + 1)>>), B(<<cbv(0)>>), B(<<cbv(0 - 1)>>),
          B(<<cb, Coinbase(h, OtherData, c.acc, rw)>>),
          B(<<SpendAll(UnknownOutPoint), cb>>),
          Mine(c, [R(<<>>) EXCEPT !.header.merkle = NeverSeen]),
          Mine(c, RawBlock(c, p, bits, Now + 1, <<cb>>)),
          Unmined(c, R(<<cb>>)),
          Mine(c, [R(<<cb>>) EXCEPT !.header.bits = compact(PowLimit \div 2)]),
          Mine(c, [R(<<cb>>) EXCEPT !.header.prev = NeverSeen]),
          Mine(c, [R(<<cb>>) EXCEPT !.header.merkle = Zero]),
          Mine(c, [R(<<cb>>) EXCEPT !.header.merkle = NeverSeen]) }
        \cup { B(<<cbv(rw + Fee), Spend(o)>>) : o \in KnownOutPoints(self) }
\* the blocks handed to link on the grown directory: blocks that spend the
\* known outpoints, a second way of spending the first coinbase, and, until
\* the indexer has appended a block, blocks whose spending of the first
\* coinbase, or of an outpoint the chain does not have, some check has to
\* turn down
SpendingBlocks(self) ==
    LET c == self.conf
        h == next_height(self)
        rw == compute_reward(c, h)
        cbv(v) == Coinbase(h, NoData, c.acc, v)
        B(txs) == Mine(c, RawBlock(c, best(self).val.id, MinerBits(self),
                                   BuiltAt(h), txs))
        o0 == CoinbaseOutPoint(self, 0)
    IN  { B(<<cbv(rw + Fee), Spend(o)>>) : o \in KnownOutPoints(self) }
        \cup { B(<<cbv(rw + Fee), SpendAll(o0)>>) }
        \cup (IF self.blk.log # <<>> THEN {}
              ELSE { B(<<cbv(rw + Fee), Spend(o)>>) : o \in {UnknownOutPoint, PastEnd(o0)} }
                   \cup { B(<<cbv(rw + Fee), t>>) : t \in BadSpends(o0) }
                   \cup { B(<<cbv(rw + Fee + 1), Spend(o0)>>),
                          B(<<cbv(rw + 2 * Fee), Spend(o0), SpendAll(o0)>>) })
\* the blocks handed to link
LinkBlocks(self) ==
    {NextBlock(self)}
    \cup (IF IsOk(best(self)) THEN {BlockAtHeight(self, TipHeight(self))} ELSE {})
    \cup (IF DirHeight(self.conf.dir) < 0 THEN MalformedBlocks(self)
          ELSE SpendingBlocks(self))
\* the storage call that fails while a block is linked, if any
IoFaults == {"ok", "blk", "rev", "write"}
\* the transactions handed to append: spends of the known coinbase outputs,
\* a spend with a bad signature, and a coinbase
AppendTxs(self) ==
    LET cbs == {o \in KnownOutPoints(self) :
                    o.out.script.hasher = Account_get_address(AccA) /\ o.idx = 0}
    IN { Spend(o) : o \in cbs }
       \cup { [Spend(o) EXCEPT !.ins = <<NewTxIn(o, Owner(o.out, "bad"))>>] :
                  o \in {k \in cbs : k = CoinbaseOutPoint(self, 0)} }
       \cup { new_coinbase(self.conf, next_height(self), NoData, AccA) }
\* the number of transactions the pool holds: those of by_id, or those of
\* by_fee if they are more
RECURSIVE FeeCount(_, _)
FeeCount(byfee, fees) ==
    IF fees = {} THEN 0
    ELSE LET f == CHOOSE x \in fees : TRUE
         IN Len(byfee[f]) + FeeCount(byfee, fees \ {f})
PoolSize(p) ==
    IF FeeCount(p.byfee, DOMAIN p.byfee) > Cardinality(DOMAIN p.byid)
    THEN FeeCount(p.byfee, DOMAIN p.byfee) ELSE Cardinality(DOMAIN p.byid)
\* the ids handed to remove
RemoveIds(self) ==
    {k[2] : k \in DOMAIN self.pool.byid} \cup {NeverSeen}

(***************************************************************************)
(* Initial states: Chain::new on the fresh directory or on the grown one.  *)
(***************************************************************************)
Init ==
    /\ conf \in {Config_test, [Config_test EXCEPT !.dir = "grown"]}
    /\ disk = [index |-> DirIndex(conf.dir), blk |-> DirBlk(conf.dir),
               rev |-> DirRev(conf.dir)]
    /\ leveldb = [put |-> <<>>, del |-> {}]
    /\ cache = <<>>
    /\ blk = <<>>
    /\ rev = <<>>
    /\ pool = TxPool_default
    /\ last = [op |-> "new", err |-> ""]
    /\ rwlock = Unlocked
    /\ thr = [t \in Threads |-> Idle]
    /\ ChainOnly

\* what a call has made of the indexer: the writes to the index, the cache,
\* the appended segments and the pool
Written(self) ==
    [leveldb |-> [put |-> self.leveldb.put, del |-> self.leveldb.del],
     cache |-> self.cache, blk |-> self.blk.log, rev |-> self.rev.log,
     pool |-> self.pool]
\* the indexer becomes st, the call op having returned err
Stored(st, op, err) ==
    /\ leveldb' = st.leveldb
    /\ cache' = st.cache
    /\ blk' = st.blk
    /\ rev' = st.rev
    /\ pool' = st.pool
    /\ conf' = conf
    /\ disk' = disk
    /\ last' = [op |-> op, err |-> err]
    /\ UNCHANGED <<store, files, locs, eval, pubsub>>
\* the indexer becomes self, the call op having returned err, made by a
\* caller that is the only one
Becomes(self, op, err) ==
    /\ Stored(Written(self), op, err)
    /\ rwlock' = rwlock
    /\ thr' = thr

\* Chain::link.  A storage fault is drawn for the block a miner would build.
Link ==
    /\ Len(blk) < MaxStore
    /\ \E b \in LinkBlocks(Self) :
         \E io \in (IF b = NextBlock(Self) THEN IoFaults ELSE {"ok"}) :
            LET r == link(Self, b, Now, io) IN Becomes(r.self, "link", r.err)

\* Chain::pop
Pop ==
    /\ IsOk(best(Self)) => TipHeight(Self) > Floor(Self)
    /\ \E io \in {"ok", "write"} :
         LET r == pop(Self, io) IN Becomes(r.self, "pop", r.err)

\* Chain::append
AppendTx ==
    /\ PoolSize(pool) < MaxPool
    /\ \E tx \in AppendTxs(Self) :
         LET r == append(Self, tx) IN Becomes(r.self, "append", r.err)

\* Chain::remove
RemoveTx ==
    \E id \in RemoveIds(Self) :
        LET r == remove(Self, id) IN Becomes(r.self, "remove", r.err)

Next == Link \/ Pop \/ AppendTx \/ RemoveTx
Spec == Init /\ [][Next]_vars

(***************************************************************************)
(* Power loss.  LevelDB::write is called with sync = true, so a batch that *)
(* was written is in the index after the crash.  Store::push appends with  *)
(* File::write and nothing calls StoreFile::sync, so of what was appended  *)
(* to a segment file only what the system had written back by itself is    *)
(* in the file after the crash: any prefix of it.  The indexer is then     *)
(* opened again on what the directory holds, which is where a run ends.    *)
(***************************************************************************)
\* the entries of a database, as the directory holds them
LevelDB_entries(db) == [k \in LevelDB_keys(db) |-> LevelDB_get(db, k).val]
\* the bytes of a segment log that outlive a crash after n of the appended
\* ones were written back
WrittenBack(st, n) == st.base \o SubSeq(st.log, 1, n)
\* the machine loses power, and BlkIndexer::new opens the directory
Crash ==
    /\ last.op # "crash"
    /\ \E n \in 0..Len(blk) : \E m \in 0..Len(rev) :
          /\ disk' = [index |-> LevelDB_entries(Self.leveldb),
                      blk |-> WrittenBack(Self.blk, n),
                      rev |-> WrittenBack(Self.rev, m)]
          /\ leveldb' = [put |-> <<>>, del |-> {}]
          /\ cache' = <<>>
          /\ blk' = <<>>
          /\ rev' = <<>>
          /\ pool' = TxPool_default
          /\ last' = [op |-> "crash", err |-> ""]
    /\ UNCHANGED <<conf, rwlock, thr, store, files, locs, eval, pubsub>>
\* Chain::link on the machine that has not lost power
LinkBefore == last.op # "crash" /\ Link
NextCrash == LinkBefore \/ Crash
SpecCrash == Init /\ [][NextCrash]_vars

(***************************************************************************)
(* The mempool under load: on the long chain the callers append            *)
(* transactions of several fees, remove them, and hand link blocks that    *)
(* spend what is only pending.                                             *)
(***************************************************************************)
\* the fees the callers pay to spend the coinbase of height h
PoolFees(h) == IF h = 0 THEN {5} ELSE IF h = 1 THEN {10, 5} ELSE {3}
\* o spent by its owner, all of it less the fee f to the other account
SpendFee(o, f) ==
    [ver |-> 1, ins |-> <<NewTxIn(o, Owner(o.out, "ok"))>>,
     outs |-> <<NewTxOut(o.out.value - f, Other(Owner(o.out, "ok")))>>]
\* the first outputs of the pending transactions
PendingOutPoints(self) == {OutPoint(self.pool.byid[k], 1) : k \in DOMAIN self.pool.byid}
\* the transactions handed to append: spends of the matured coinbases,
\* spends of the pending outputs, and, while nothing is pending,
\* transactions a check has to turn down: a spend of the coinbase of the
\* tip, one paying out more than it takes, one with a bad signature, one
\* with no output, and a coinbase
PoolTxs(self) ==
    LET o0 == CoinbaseOutPoint(self, 0)
    IN UNION {{ SpendFee(CoinbaseOutPoint(self, h), f) : f \in PoolFees(h) } :
                  h \in 0..(MaxPoolTx - 1)}
       \cup { SpendFee(o, 3) : o \in PendingOutPoints(self) }
       \cup (IF PoolSize(self.pool) > 0 THEN {}
             ELSE { SpendFee(CoinbaseOutPoint(self, TipHeight(self)), 3),
                    SpendFee(o0, 0 - 1),
                    [SpendFee(o0, 3) EXCEPT !.ins = <<NewTxIn(o0, Owner(o0.out, "bad"))>>],
                    [SpendFee(o0, 3) EXCEPT !.outs = <<>>],
                    new_coinbase(self.conf, next_height(self), NoData, AccA) })
\* the blocks handed to link: each spends the output of a pending transaction
PoolBlocks(self) ==
    { Mine(self.conf,
           RawBlock(self.conf, best(self).val.id, MinerBits(self),
                    BuiltAt(next_height(self)),
                    <<Coinbase(next_height(self), NoData, self.conf.acc,
                               compute_reward(self.conf, next_height(self)) + 3),
                      SpendFee(o, 3)>>)) : o \in PendingOutPoints(self) }

\* Chain::new on the directory of the long chain
InitPool ==
    /\ conf = [Config_test EXCEPT !.dir = "long"]
    /\ disk = [index |-> DirIndex(conf.dir), blk |-> DirBlk(conf.dir),
               rev |-> DirRev(conf.dir)]
    /\ leveldb = [put |-> <<>>, del |-> {}]
    /\ cache = <<>>
    /\ blk = <<>>
    /\ rev = <<>>
    /\ pool = TxPool_default
    /\ last = [op |-> "new", err |-> ""]
    /\ rwlock = Unlocked
    /\ thr = [t \in Threads |-> Idle]
    /\ ChainOnly
\* Chain::append, while the pool holds no more than MaxPoolTx transactions
AppendPool ==
    \E tx \in PoolTxs(Self) :
        LET r == append(Self, tx)
        IN /\ PoolSize(r.self.pool) <= MaxPoolTx
           /\ Becomes(r.self, "append", r.err)
\* the entries of by_fee beyond one for each transaction of by_id
StaleCount(p) ==
    FeeCount(p.byfee, DOMAIN p.byfee)
    - Cardinality({k \in DOMAIN p.byid :
                      \E f \in DOMAIN p.byfee : \E i \in 1..Len(p.byfee[f]) :
                          p.byfee[f][i] = p.byid[k]})
\* Chain::remove, while by_fee holds fewer than MaxStale such entries
RemovePool ==
    /\ StaleCount(pool) < MaxStale
    /\ \E id \in RemoveIds(Self) :
         LET r == remove(Self, id) IN Becomes(r.self, "remove", r.err)
\* Chain::link of a block that spends a pending output
LinkPool ==
    \E b \in PoolBlocks(Self) :
        LET r == link(Self, b, Now, "ok") IN Becomes(r.self, "link", r.err)
NextPool == AppendPool \/ RemovePool \/ LinkPool
SpecPool == InitPool /\ [][NextPool]_vars

\* Chain::new on the directory of the short-span configuration
InitSpan ==
    /\ conf = Config_span
    /\ disk = [index |-> DirIndex(conf.dir), blk |-> DirBlk(conf.dir),
               rev |-> DirRev(conf.dir)]
    /\ leveldb = [put |-> <<>>, del |-> {}]
    /\ cache = <<>>
    /\ blk = <<>>
    /\ rev = <<>>
    /\ pool = TxPool_default
    /\ last = [op |-> "new", err |-> ""]
    /\ rwlock = Unlocked
    /\ thr = [t \in Threads |-> Idle]
    /\ ChainOnly
SpecSpan == InitSpan /\ [][Next]_vars


(***************************************************************************)
(* A Store used by itself, as test_all_store uses it: records are pushed,  *)
(* then pulled by the Attr push returned, and the store is dropped and     *)
(* made again on the directory.  The n-th record pushed is one byte n or two,   *)
(* so a file of MaxFile bytes holds records of both lengths.               *)
(***************************************************************************)
\* the directories: the one BlkIndexer::new makes, conf.dir + "/block", and
\* a relative directory that is named like the extension
StoreDirs == {"block", "blk"}
\* the n-th record pushed
Record(n) == IF n % 2 = 0 THEN <<n>> ELSE <<n, n>>
\* the records handed to push: the next one; the first time also no bytes
\* and more bytes than a file holds
PushRecords ==
    {Record(Len(locs))}
    \cup (IF locs = <<>> THEN {<<>>, [i \in 1..(MaxFile + 1) |-> 0]} ELSE {})
\* the numbers of the files the store holds a handle of
Cached(st) == {st.cache[i].idx : i \in 1..Len(st.cache)}
\* the handle the store opened last
Newest(st) == st.cache[Len(st.cache)]
\* the files a caller reads next that the store holds no handle of: the
\* one before or the one after the file it opened last and, when that is
\* the file written to, the greatest and the least of the files
NextFiles(st, held) ==
    IF Newest(st).idx = st.idx
    THEN {i \in held \ Cached(st) :
            \/ \A j \in held \ Cached(st) : j <= i
            \/ \A j \in held \ Cached(st) : j >= i}
    ELSE {Newest(st).idx - 1, Newest(st).idx + 1} \cap (held \ Cached(st))
\* the records handed to pull: those of the file written to, of the files
\* opened first and last and of the files read next
PullLocs ==
    {n \in 1..Len(locs) :
        locs[n].attr.idx \in
           {store.idx, store.cache[1].idx, Newest(store).idx}
           \cup NextFiles(store, {locs[m].attr.idx : m \in 1..Len(locs)})}
\* Store::new on an empty directory
InitStore ==
    /\ conf = Config_test
    /\ disk = [index |-> <<>>, blk |-> <<>>, rev |-> <<>>]
    /\ leveldb = [put |-> <<>>, del |-> {}]
    /\ cache = <<>>
    /\ blk = <<>>
    /\ rev = <<>>
    /\ pool = TxPool_default
    /\ last = [op |-> "new", err |-> ""]
    /\ rwlock = Unlocked
    /\ thr = [t \in Threads |-> Idle]
    /\ \E d \in StoreDirs :
          /\ store = Store_new_in(<<>>, d, "blk", MaxFile).st
          /\ files = Store_new_in(<<>>, d, "blk", MaxFile).fs
          /\ eval = [fn |-> "new", arg |-> d, res |-> Ok(<<>>)]
    /\ locs = <<>>
    /\ pubsub = NoPubSub
Chain0 == <<leveldb, cache, blk, rev, pool, conf, disk, last, rwlock, thr, pubsub>>
\* Store::push; a caller pushes its records before it pulls any
StorePush ==
    /\ eval.fn # "pull"
    /\ \E b \in PushRecords :
          Bind(Store_push_in(store, files, b), LAMBDA r :
            /\ r.st.idx <= MaxSeg
            /\ store' = r.st
            /\ files' = r.fs
            /\ locs' = IF IsOk(r) THEN Append(locs, [attr |-> r.val, bytes |-> b]) ELSE locs
            /\ eval' = [fn |-> "push", arg |-> b, res |-> [err |-> r.err, val |-> r.val]])
    /\ UNCHANGED Chain0
\* Store::pull
StorePull ==
    /\ \E n \in PullLocs :
          Bind(Store_pull_in(store, files, locs[n].attr.idx, locs[n].attr.off,
                             locs[n].attr.len), LAMBDA r :
            /\ store' = r.st
            /\ files' = r.fs
            /\ eval' = [fn |-> "pull", arg |-> locs[n].attr,
                        res |-> [err |-> r.err, val |-> r.val]])
    /\ UNCHANGED locs
    /\ UNCHANGED Chain0
\* the store a caller has pushed to is dropped and Store::new is called on
\* the directory again
StoreNew ==
    /\ eval.fn = "push"
    /\ Bind(Store_new_in(files, store.dir, store.ext, store.max), LAMBDA r :
            /\ store' = r.st
            /\ files' = r.fs
            /\ eval' = [fn |-> "new", arg |-> store.dir, res |-> Ok(<<>>)])
    /\ UNCHANGED locs
    /\ UNCHANGED Chain0
NextStore == StorePush \/ StorePull \/ StoreNew
SpecStore == InitStore /\ [][NextStore]_vars

(***************************************************************************)
(* Chain: threads call the indexer through the RwLock.  A call takes the   *)
(* lock, runs the closure on the indexer, and lets the lock go when the    *)
(* guard is dropped; what the closure wrote is the indexer's from then on. *)
(***************************************************************************)
\* a lock that is granted for writing whoever holds it
RwLock_write_shared(l) == TRUE
\* RwLock::write in Chain::do_write: granted when no thread holds the lock
RwLock_write(l) == l.writer = 0 /\ l.readers = {}
\* RwLock::read in Chain::do_read: granted when no thread holds it to write
RwLock_read(l) == l.writer = 0
\* a facade whose get goes through do_read with the other reading calls
ReadCalls_get == {"best", "coins", "attr", "get"}
\* the calls that go through do_read
ReadCalls == {"best", "coins", "attr"}
\* the coinbase text a thread passes to new_block
ThreadData(t) == IF t = 1 THEN NoData ELSE OtherData
\* the calls thread t may make next, each with the arguments it may pass:
\* new_block when it holds no block, link of the block it holds, pop, get of
\* a block it has linked, append, remove, best, attr and coins
ChainCalls(t) ==
    [n \in {"new_block", "link", "get", "pop", "append", "remove", "best", "attr", "coins"} |->
        CASE n = "new_block" -> IF thr[t].mine = <<>> THEN {ThreadData(t)} ELSE {}
          [] n = "link" -> IF thr[t].mine = <<>> \/ Len(blk) >= MaxStore THEN {}
                           ELSE {thr[t].mine}
          [] n = "get" -> {id_key(Block_id(b)) : b \in thr[t].done}
          [] n = "append" -> {Spend(CoinbaseOutPoint(Self, 0))}
          [] n = "remove" -> {NeverSeen}
          [] n = "attr" -> {id_key(Block_id(GenesisBlock))}
          [] n = "coins" -> {Account_get_address(AccA)}
          [] OTHER -> {<<>>}]
\* the closure of a call of Chain run on the indexer
Exec(self, call, arg) ==
    CASE call = "new_block" -> new_block(self, arg)
      [] call = "link" -> link(self, arg, Now, "ok")
      [] call = "pop" -> pop(self, "ok")
      [] call = "get" -> get(self, arg)
      [] call = "append" -> append(self, arg)
      [] call = "remove" -> remove(self, arg)
      [] call = "best" -> [err |-> best(self).err, val |-> best(self).val, self |-> self]
      [] call = "attr" -> [err |-> attr_BlkAttr(self, arg).err,
                           val |-> attr_BlkAttr(self, arg).val, self |-> self]
      [] call = "coins" -> ROk(coins(self, arg), self)

\* Chain::new by Config::test: the genesis block is linked
InitChain ==
    /\ conf = [Config_test EXCEPT !.dir = "test"]
    /\ disk = [index |-> DirIndex(conf.dir), blk |-> DirBlk(conf.dir),
               rev |-> DirRev(conf.dir)]
    /\ leveldb = [put |-> <<>>, del |-> {}]
    /\ cache = <<>>
    /\ blk = <<>>
    /\ rev = <<>>
    /\ pool = TxPool_default
    /\ last = [op |-> "new", err |-> ""]
    /\ rwlock = Unlocked
    /\ thr = [t \in Threads |-> Idle]
    /\ ChainOnly
\* thread t makes one of the calls: do_read or do_write takes the lock
Enter(t, calls) ==
    /\ thr[t].pc = "idle"
    /\ \E n \in DOMAIN calls : \E a \in calls[n] :
         /\ IF n \in ReadCalls
            THEN RwLock_read(rwlock) /\ rwlock' = [rwlock EXCEPT !.readers = @ \cup {t}]
            ELSE RwLock_write(rwlock) /\ rwlock' = [rwlock EXCEPT !.writer = t]
         /\ thr' = [thr EXCEPT ![t].pc = "in", ![t].call = n, ![t].arg = a]
    /\ UNCHANGED <<leveldb, cache, blk, rev, pool, conf, disk, last>>
    /\ UNCHANGED <<store, files, locs, eval, pubsub>>
\* thread t makes any call of the facade
Acquire(t) == Enter(t, ChainCalls(t))
\* the closure of the call runs on the indexer the thread has locked
Work(t) ==
    /\ thr[t].pc = "in"
    /\ thr' = [thr EXCEPT ![t].pc = "ran",
                          ![t].res = Bind(Exec(Self, thr[t].call, thr[t].arg), LAMBDA r :
                                         [err |-> r.err, val |-> r.val, st |-> Written(r.self)])]
    /\ UNCHANGED <<leveldb, cache, blk, rev, pool, conf, disk, last, rwlock>>
    /\ UNCHANGED <<store, files, locs, eval, pubsub>>
\* the call returns: the guard is dropped, the indexer is what the closure
\* made of it, and the thread keeps the block it has built or linked; a
\* block that was popped is no longer one a thread has linked
Release(t) ==
    /\ thr[t].pc = "ran"
    /\ Stored(IF thr[t].call \in ReadCalls THEN Written(Self) ELSE thr[t].res.st,
              thr[t].call, thr[t].res.err)
    /\ rwlock' = IF thr[t].call \in ReadCalls
                 THEN [rwlock EXCEPT !.readers = @ \ {t}]
                 ELSE [rwlock EXCEPT !.writer = 0]
    /\ thr' = [u \in Threads |->
                 Bind(IF thr[t].call = "pop" /\ thr[t].res.err = ""
                      THEN {b \in thr[u].done : Block_id(b) # Block_id(thr[t].res.val)}
                      ELSE thr[u].done, LAMBDA kept :
                 IF u # t THEN [thr[u] EXCEPT !.done = kept]
                 ELSE [Idle EXCEPT
                         !.mine = IF thr[t].call = "new_block" /\ thr[t].res.err = ""
                                  THEN thr[t].res.val
                                  ELSE IF thr[t].call = "link" THEN <<>> ELSE thr[t].mine,
                         !.done = IF thr[t].call = "link" /\ thr[t].res.err = ""
                                  THEN kept \cup {thr[t].arg} ELSE kept])]
NextChain == \E t \in Threads : Acquire(t) \/ Work(t) \/ Release(t)
SpecChain == InitChain /\ [][NextChain]_vars

(***************************************************************************)
(* test_indexer_thread: every thread builds a block with new_block, links  *)
(* it, and gets it back by its id; here a thread goes on to a next round.  *)
(***************************************************************************)
\* the calls thread t may make next: link of the block it has built, else
\* new_block or get of a block it has linked
ThreadCalls(t) ==
    [n \in {"new_block", "link", "get"} |->
        CASE n = "link" -> IF thr[t].mine = <<>> \/ Len(blk) >= MaxStore THEN {}
                           ELSE {thr[t].mine}
          [] n = "new_block" -> IF thr[t].mine = <<>> THEN {ThreadData(t)} ELSE {}
          [] OTHER -> IF thr[t].mine = <<>>
                      THEN {id_key(Block_id(b)) : b \in thr[t].done} ELSE {}]
Spawned(t) == Enter(t, ThreadCalls(t))
NextThreads == \E t \in Threads : Spawned(t) \/ Work(t) \/ Release(t)
SpecThreads == InitChain /\ [][NextThreads]_vars

(***************************************************************************)
(* What a reader of the index observes.                                    *)
(***************************************************************************)
\* the whole index content: every key with the value stored under it
KvIndex(self) ==
    [k \in LevelDB_keys(self.leveldb) |-> LevelDB_get(self.leveldb, k).val]
\* the keys of the coin records, and the coin stored under one
CoinKeys(self) == {k \in LevelDB_keys(self.leveldb) : is_coin_key(k)}
CoinAt(self, k) == LevelDB_get(self.leveldb, k).val
\* the height the index records for the block holding the transaction of a coin key
OriginHeight(self, k) ==
    LevelDB_get(self.leveldb,
                id_key(LevelDB_get(self.leveldb, id_key(k[3])).val.blk)).val.hhv
\* the output a coin key names, read from the stored block
OriginTx(self, k) ==
    StoredBlock(self, LevelDB_get(self.leveldb, id_key(k[3])).val.blk)
        .txs[LevelDB_get(self.leveldb, id_key(k[3])).val.idx + 1]
\* the step just taken was a call of op that returned Ok, or an error
Returned(op) == last.op = op /\ last.err = ""
Failed(op) == last.op = op /\ last.err # ""

(***************************************************************************)
(* Claims                                                                  *)
(***************************************************************************)
\* C1: pop is the exact inverse of link: on a chain with a tip, a
\* successful link followed by a pop leaves the whole index content (Best,
\* height->id, id->BlkAttr, txid->TxAttr, every coin record) as it was
\* before the link, also when the linked block spends existing coins.
C1_PopInvertsLink ==
    [][(IsOk(best(Self)) /\ last'.op = "link" /\ last'.err = "")
          => KvIndex(pop(Self', "ok").self) = KvIndex(Self)]_vars

\* C2: popping the block that spent a coin re-creates the coin under the
\* same key with the value of its output, the coinbase flag of its
\* transaction and the height of the block that created it.
C2_PopRecreatesCoin ==
    [][(last'.op = "pop" /\ last'.err = "")
          => \A k \in CoinKeys(Self') \ CoinKeys(Self) :
                /\ CoinAt(Self', k).value = OriginTx(Self', k).outs[k[4] + 1].value
                /\ CoinAttr_is_coinbase(CoinAt(Self', k)) = Tx_is_coinbase(OriginTx(Self', k))
                /\ CoinAt(Self', k).height = OriginHeight(Self', k)]_vars


\* C3: a link call that returns an error leaves Best, every index entry and
\* the mempool as they were before the call; the segment stores keep what
\* they held and at most gain bytes at their tails.
C3_FailedLinkKeepsState ==
    [][(last'.op = "link" /\ last'.err # "")
          => /\ leveldb' = leveldb
             /\ best(Self') = best(Self)
             /\ pool' = pool
             /\ Len(blk') >= Len(blk) /\ SubSeq(blk', 1, Len(blk)) = blk
             /\ Len(rev') >= Len(rev) /\ SubSeq(rev', 1, Len(rev)) = rev]_vars
\* a link whose index write failed after both segment appends
C3_Witness ==
    /\ last = [op |-> "link", err |-> "leveldb write error"]
    /\ Len(blk) > 0 /\ Len(rev) > 0
    /\ leveldb = [put |-> <<>>, del |-> {}]

\* the height keys of the index
HeightKeys(self) == {k \in LevelDB_keys(self.leveldb) : k[1] = "u32"}
\* the id stored for a height and the header stored for an id
IdAt(self, h) == LevelDB_get(self.leveldb, height_key(h)).val
HeaderOf(self, id) == LevelDB_get(self.leveldb, id_key(id)).val.bhv

\* C4: the index holds one linear chain: height->id is defined exactly for
\* the heights 0..Best.height (for none when there is no Best), the id at
\* Best.height is Best.id, the block at height 0 has the configured genesis
\* id, and the block at every height h > 0 has header.prev equal to the id
\* stored at height h-1.
C4_OneLinearChain ==
    IF ~IsOk(best(Self)) THEN HeightKeys(Self) = {}
    ELSE /\ HeightKeys(Self) = {height_key(h) : h \in 0..TipHeight(Self)}
         /\ IdAt(Self, TipHeight(Self)) = best(Self).val.id
         /\ IdAt(Self, 0) = conf.genesis
         /\ \A h \in 0..TipHeight(Self) :
               /\ LevelDB_has(Self.leveldb, id_key(IdAt(Self, h)))
               /\ Header_id(HeaderOf(Self, IdAt(Self, h))) = IdAt(Self, h)
               /\ h > 0 => HeaderOf(Self, IdAt(Self, h)).prev = IdAt(Self, h - 1)
\* a block linked at the height of a block that was popped
C4_Witness ==
    /\ Returned("link") /\ conf.dir = "grown"
    /\ TipHeight(Self) = GrownTip /\ Len(blk) > 0

\* the coin record of output j of transaction i of block b
OutputCoin(b, i, j) ==
    LevelDB_get(Self.leveldb,
                CoinAttr_key([cpk |-> TxOut_get_address(b.txs[i].outs[j]).val,
                              tx |-> Tx_id(b.txs[i]), idx |-> j - 1]))
\* the outputs of the best block's transactions have their coin records,
\* with the value of the output and the coinbase flag of the transaction
BestOutputsAreCoins(b) ==
    \A i \in 1..Len(b.txs) : \A j \in 1..Len(b.txs[i].outs) :
        /\ IsOk(OutputCoin(b, i, j))
        /\ OutputCoin(b, i, j).val.value = b.txs[i].outs[j].value
        /\ OutputCoin(b, i, j).val.flags =
              (IF Tx_is_coinbase(b.txs[i]) THEN COIN_ATTR_FLAGS_COINBASE ELSE 0)
\* no coin record is left for an outpoint an input of the best block spends
BestInputsAreSpent(b) ==
    \A i \in 1..Len(b.txs) : \A j \in 1..Len(b.txs[i].ins) :
        TxIn_is_coinbase(b.txs[i].ins[j])
        \/ \A k \in CoinKeys(Self) :
              ~(k[3] = b.txs[i].ins[j].out /\ k[4] = b.txs[i].ins[j].idx)

BestBlock(self) == StoredBlock(self, best(self).val.id)
\* the non-coinbase inputs of a block
SpendingIns(b) ==
    {BlockIns(b.txs, 1)[n] : n \in {m \in 1..Len(BlockIns(b.txs, 1)) :
                                       ~TxIn_is_coinbase(BlockIns(b.txs, 1)[m])}}
\* the coin key an input names: owner || referenced tx id || output index
InputCoinKey(inv) ==
    CoinAttr_key([cpk |-> TxIn_get_address(inv).val, tx |-> inv.out, idx |-> inv.idx])
SpentKeys(b) == {InputCoinKey(inv) : inv \in SpendingIns(b)}
\* the coin records of the outputs of a block linked at height h, as
\* <<key, record>> pairs
CreatedCoins(b, h) ==
    UNION {{<<CoinAttr_key([cpk |-> TxOut_get_address(b.txs[i].outs[j]).val,
                            tx |-> Tx_id(b.txs[i]), idx |-> j - 1]),
              [value |-> b.txs[i].outs[j].value,
               flags |-> IF i = 1 THEN COIN_ATTR_FLAGS_COINBASE ELSE 0,
               height |-> h]>> : j \in 1..Len(b.txs[i].outs)} : i \in 1..Len(b.txs)}

\* C6: a successful link(B) at height h removes every coin referenced by a
\* non-coinbase input of B, adds for every output i of every transaction t
\* of B the coin owner||id(t)||i with the output's value, flag bit 0 set iff
\* t is the coinbase, and height h, and adds, removes or changes no other
\* coin.
C6_LinkCoinDelta ==
    [][(last'.op = "link" /\ last'.err = "")
          => /\ SpentKeys(BestBlock(Self')) \subseteq CoinKeys(Self)
             /\ CoinKeys(Self') =
                  (CoinKeys(Self) \ SpentKeys(BestBlock(Self')))
                  \cup {p[1] : p \in CreatedCoins(BestBlock(Self'), TipHeight(Self'))}
             /\ \A p \in CreatedCoins(BestBlock(Self'), TipHeight(Self')) :
                   CoinAt(Self', p[1]) = p[2]
             /\ \A k \in CoinKeys(Self) \ SpentKeys(BestBlock(Self')) :
                   CoinAt(Self', k) = CoinAt(Self, k)]_vars
\* a linked block with a transaction that spends a coin and pays two outputs
C6_Witness ==
    /\ Returned("link")
    /\ Len(BestBlock(Self).txs) = 2
    /\ Len(BestBlock(Self).txs[2].outs) = 2

\* the sum of the values of the coin records of an index function
RECURSIVE SumCoinValues(_, _)
SumCoinValues(f, keys) ==
    IF keys = {} THEN 0
    ELSE LET k == CHOOSE x \in keys : TRUE
         IN  (IF is_coin_key(k) THEN f[k].value ELSE 0) + SumCoinValues(f, keys \ {k})
\* the sum of the values of the coin records among keys whose heights lie in
\* lo..hi, the heights halved until one is left
RECURSIVE SumCoinsBetween(_, _, _, _)
SumCoinsBetween(f, keys, lo, hi) ==
    IF keys = {} THEN 0
    ELSE IF lo >= hi THEN SumCoinValues(f, keys)
    ELSE SumCoinsBetween(f, {k \in keys : f[k].height <= (lo + hi) \div 2},
                         lo, (lo + hi) \div 2)
         + SumCoinsBetween(f, {k \in keys : f[k].height > (lo + hi) \div 2},
                           ((lo + hi) \div 2) + 1, hi)
\* the sum of the values of the coin records among keys
SumCoins(f, keys) ==
    Bind({k \in keys : is_coin_key(k)}, LAMBDA coinkeys :
       IF coinkeys = {} THEN 0
       ELSE SumCoinsBetween(f, coinkeys, 0,
                            CHOOSE m \in {f[k].height : k \in coinkeys} :
                               \A k \in coinkeys : f[k].height <= m))
\* the coins of the grown directory, summed once
GrownCoinSum == SumCoins(GrownIndex, DOMAIN GrownIndex)
\* the sum of the values of all coins: those of the directory that are
\* neither deleted nor rewritten, and those written since
CoinSum(self) ==
    (IF self.conf.dir = "grown" THEN GrownCoinSum ELSE 0)
    - SumCoins(self.leveldb.base,
               DOMAIN self.leveldb.base \cap (self.leveldb.del \cup DOMAIN self.leveldb.put))
    + SumCoins(self.leveldb.put, DOMAIN self.leveldb.put)
\* subsidy(i) = (50 * COIN) >> (i / halving), 0 once i / halving >= 64
Subsidy(c, i) ==
    IF i \div c.halving >= 64 THEN 0 ELSE (50 * COIN) \div Pow2(i \div c.halving)
\* the sum of subsidy(i) for i = lo..hi, the range halved until one is left
RECURSIVE SubsidyBetween(_, _, _)
SubsidyBetween(c, lo, hi) ==
    IF lo > hi THEN 0
    ELSE IF lo = hi THEN Subsidy(c, lo)
    ELSE SubsidyBetween(c, lo, (lo + hi) \div 2)
         + SubsidyBetween(c, ((lo + hi) \div 2) + 1, hi)
SubsidyUpTo(c, h) == SubsidyBetween(c, 0, h)

\* C7: the sum of the values of all coins at tip height h is at most the
\* sum of subsidy(i) for i = 0..h.
C7_SupplyBounded ==
    IsOk(best(Self)) => CoinSum(Self) <= SubsidyUpTo(conf, TipHeight(Self))
\* link has turned down a block whose coinbase claims more than the subsidy
\* and the fees, on a chain whose coins sum to all the subsidies so far
C7_Witness ==
    /\ last = [op |-> "link", err |-> "cfee > rfee + tfee"]
    /\ conf.dir = "grown"
    /\ CoinSum(Self) = SubsidyUpTo(conf, GrownTip)

\* C8: link accepts a non-coinbase input only if, in the state before the
\* block, a coin exists under the key (address recovered from the input
\* script, referenced tx id, output index), that address is the address of
\* the referenced output, and the coin's value is the referenced output's.
C8_SpendsExistingCoin ==
    [][(last'.op = "link" /\ last'.err = "")
          => \A inv \in SpendingIns(BestBlock(Self')) :
                /\ InputCoinKey(inv) \in CoinKeys(Self)
                /\ TxIn_get_address(inv).val
                     = TxOut_get_address(OriginTx(Self, InputCoinKey(inv)).outs[inv.idx + 1]).val
                /\ CoinAt(Self, InputCoinKey(inv)).value
                     = OriginTx(Self, InputCoinKey(inv)).outs[inv.idx + 1].value]_vars
\* link has turned down a block spending a coin that an earlier block spent
C8_Witness ==
    /\ last = [op |-> "link", err |-> "data empty"]
    /\ \E k \in leveldb.del : is_coin_key(k)


\* the inputs of a set of new pool entries
PoolIns(p, ids) ==
    UNION {{p.byid[k].ins[n] : n \in 1..Len(p.byid[k].ins)} : k \in ids}
\* the coin an input names is no coinbase coin, or its creating block is at
\* least COINBASE_MATURITY below height h
MatureAt(self, inv, h) ==
    Tx_is_coinbase(OriginTx(self, InputCoinKey(inv)))
        => h - OriginHeight(self, InputCoinKey(inv)) >= COINBASE_MATURITY

\* C9: after any sequence of link and pop calls a coin created by a coinbase
\* transaction at height c is accepted as an input of a block at height h,
\* or of a mempool transaction checked for height h, only if
\* h - c >= COINBASE_MATURITY.
C9_CoinbaseMaturity ==
    [][/\ (last'.op = "link" /\ last'.err = "")
             => \A inv \in SpendingIns(BestBlock(Self')) :
                   MatureAt(Self, inv, TipHeight(Self'))
       /\ (last'.op = "append" /\ last'.err = "")
             => \A inv \in PoolIns(pool', DOMAIN pool'.byid \ DOMAIN pool.byid) :
                   MatureAt(Self, inv, TipHeight(Self) + 1)]_vars

\* no outpoint is named by two inputs of the block
NoRepeatedOutPoint(b) ==
    \A m, n \in 1..Len(BlockIns(b.txs, 1)) :
        m < n => \/ BlockIns(b.txs, 1)[m].out # BlockIns(b.txs, 1)[n].out
                 \/ BlockIns(b.txs, 1)[m].idx # BlockIns(b.txs, 1)[n].idx

\* C10: link rejects every block in which two inputs, of one transaction or
\* of two, reference the same outpoint: a block that link accepts has none,
\* and the link that rejects one leaves the index and the chain unchanged.
C10_NoRepeatedOutPoint ==
    [][/\ (last'.op = "link" /\ last'.err = "") => NoRepeatedOutPoint(BestBlock(Self'))
       /\ (last'.op = "link" /\ last'.err = "has rep cost exout")
             => leveldb' = leveldb /\ best(Self') = best(Self)]_vars
\* link has turned down a block whose transactions spend one outpoint twice
C10_Witness ==
    /\ last = [op |-> "link", err |-> "has rep cost exout"]
    /\ conf.dir = "grown"
    /\ TipHeight(Self) = GrownTip

\* C11: a pop called when the chain is empty or its tip is the genesis block
\* returns an error and leaves Best, every index entry and the mempool as
\* they were; so no call takes the genesis block out of the index: once a
\* chain has a tip it keeps one, with the genesis id at height 0
C11_GenesisStays ==
    [][/\ (last'.op = "pop" /\ (~IsOk(best(Self)) \/ best(Self).val.id = conf.genesis))
            => /\ last'.err # ""
               /\ leveldb' = leveldb
               /\ best(Self') = best(Self)
               /\ pool' = pool
       /\ IsOk(best(Self))
            => /\ IsOk(best(Self'))
               /\ LevelDB_get(Self'.leveldb, height_key(0)) = Ok(conf.genesis)
               /\ IsOk(LevelDB_get(Self'.leveldb, id_key(conf.genesis)))]_vars
\* pop has turned down the removal of the genesis block, the tip of the
\* chain
C11_Witness ==
    /\ last = [op |-> "pop", err |-> "genesis block can't pop"]
    /\ IsOk(best(Self))
    /\ best(Self).val = [id |-> conf.genesis, height |-> 0]

\* C12: the block a successful link puts on the chain carries in its header
\* the bits next_bits returned on the chain below it, and its id, read as a
\* number, is at most the target decoded from those bits, which is at most
\* pow_limit; a block failing either condition is not linked
C12_LinkedBlockHasWork ==
    [][(last'.op = "link" /\ last'.err = "")
          => /\ BestBlock(Self').header.bits = next_bits(Self).val
             /\ Hasher_uint(best(Self').val.id)
                    <= from_compact(BestBlock(Self').header.bits)
             /\ from_compact(BestBlock(Self').header.bits) <= conf.pow_limit]_vars
\* link has turned down, above the genesis block, a block whose bits are not
\* those next_bits returns
C12_Witness ==
    /\ last = [op |-> "link", err |-> "link block bits error"]
    /\ IsOk(best(Self))
\* link has turned down, above the genesis block, a block whose id misses
\* the target of its bits
C12_WitnessUnmined ==
    /\ last = [op |-> "link", err |-> "block bits error"]
    /\ IsOk(best(Self))

\* C13: next_bits returns the compact pow limit on an empty chain and on a
\* tip of height 0, the bits of the tip when the next height is no multiple
\* of pow_span, and otherwise the bits retargeted from the times of the tip
\* and of the block pow_span below the next height
C13_NextBitsRetargets == next_bits(Self) = Ok(RetargetBits(Self))
\* C13, the block at a boundary: a block built on the tip with the bits of
\* the retarget rule, unchanged when the time elapsed is pow_time, is linked
C13_BoundaryBlockLinks ==
    (IsOk(best(Self)) /\ next_height(Self) % conf.pow_span = 0)
        => /\ RetargetBits(Self) = HeaderAt(Self, TipHeight(Self)).bits
           /\ IsOk(link(Self, NextBlock(Self), Now, "ok"))

\* C14: after a successful link of a block, no transaction of the block is
\* pending in the mempool
C14_LinkedTxLeavesPool ==
    [][(last'.op = "link" /\ last'.err = "")
          => \A i \in 1..Len(BestBlock(Self').txs) :
                id_key(Tx_id(BestBlock(Self').txs[i])) \notin DOMAIN pool'.byid]_vars

\* the transactions by_id holds, and those by_fee holds
ByIdTxs(p) == {p.byid[k] : k \in DOMAIN p.byid}
ByFeeTxs(p) == UNION {{p.byfee[f][i] : i \in 1..Len(p.byfee[f])} : f \in DOMAIN p.byfee}
\* C15: after any sequence of append and remove calls by_id and by_fee hold
\* the same transactions: a remove takes the transaction of the id, and no
\* other, out of both maps
C15_MapsAgree == ByIdTxs(pool) = ByFeeTxs(pool)

\* two entries of what iter yields have the same id, or an input of each
\* names the same outpoint
Conflict(it, i, j) ==
    \/ Tx_id(it[i]) = Tx_id(it[j])
    \/ \E m \in 1..Len(it[i].ins) : \E n \in 1..Len(it[j].ins) :
          it[i].ins[m].out = it[j].ins[n].out /\ it[i].ins[m].idx = it[j].ins[n].idx
\* C16: at all times no two transactions pending in the mempool, those iter
\* yields and those by_id holds, have an input naming the same outpoint,
\* and none is pending twice; no coinbase transaction is pending
C16_NoPendingConflict ==
    /\ \A i, j \in 1..Len(TxPool_iter(pool)) : i < j => ~Conflict(TxPool_iter(pool), i, j)
    /\ \A k1, k2 \in DOMAIN pool.byid :
          k1 # k2 => ~Conflict(<<pool.byid[k1], pool.byid[k2]>>, 1, 2)
    /\ \A k \in DOMAIN pool.byid : ~Tx_is_coinbase(pool.byid[k])

\* the fee a transaction pays: the values of the coins its inputs name less
\* the values of its outputs
RECURSIVE SumInputCoins(_, _, _)
SumInputCoins(self, ins, i) ==
    IF i > Len(ins) THEN 0
    ELSE CoinAt(self, InputCoinKey(ins[i])).value + SumInputCoins(self, ins, i + 1)
PaidFee(self, tx) == SumInputCoins(self, tx.ins, 1) - SumOuts(tx.outs, 1)
\* the sequence it without its element at position n
Without(it, n) == [i \in 1..(Len(it) - 1) |-> IF i < n THEN it[i] ELSE it[i + 1]]
\* C17: iter yields every pending transaction exactly once, in order of
\* non-increasing fee, and an admitted transaction comes after those of a
\* fee as high as its own, and before those of a lower fee, that were
\* pending before it
C17_IterByFee ==
    [][/\ Len(TxPool_iter(pool')) = Cardinality(DOMAIN pool'.byid)
       /\ {TxPool_iter(pool')[i] : i \in 1..Len(TxPool_iter(pool'))} = ByIdTxs(pool')
       /\ \A i, j \in 1..Len(TxPool_iter(pool')) :
             i < j => PaidFee(Self', TxPool_iter(pool')[i])
                          >= PaidFee(Self', TxPool_iter(pool')[j])
       /\ (last'.op = "append" /\ last'.err = "")
             => \E n \in 1..Len(TxPool_iter(pool')) :
                   /\ Without(TxPool_iter(pool'), n) = TxPool_iter(pool)
                   /\ id_key(Tx_id(TxPool_iter(pool')[n])) \notin DOMAIN pool.byid
                   /\ \A i \in 1..Len(TxPool_iter(pool')) :
                         i > n => PaidFee(Self', TxPool_iter(pool')[i])
                                     < PaidFee(Self', TxPool_iter(pool')[n])]_vars

\* C18: an append that returns an error leaves by_id, by_fee and the index
\* as they were; an append that succeeds has put the transaction into by_id
\* under its id and into by_fee under the fee it pays, the values of its
\* inputs less the values of its outputs
C18_AppendAllOrNothing ==
    [][/\ (last'.op = "append" /\ last'.err # "")
             => pool' = pool /\ leveldb' = leveldb
       /\ (last'.op = "append" /\ last'.err = "")
             => /\ leveldb' = leveldb
                /\ \E k \in DOMAIN pool'.byid \ DOMAIN pool.byid :
                      /\ DOMAIN pool'.byid = DOMAIN pool.byid \cup {k}
                      /\ k = id_key(Tx_id(pool'.byid[k]))
                      /\ PaidFee(Self, pool'.byid[k]) \in DOMAIN pool'.byfee
                      /\ \E n \in 1..Len(pool'.byfee[PaidFee(Self, pool'.byid[k])]) :
                            pool'.byfee[PaidFee(Self, pool'.byid[k])][n] = pool'.byid[k]]_vars
\* append has turned down a transaction that spends an outpoint a pending
\* transaction spends
C18_Witness ==
    /\ last = [op |-> "append", err |-> "ref out is cost"]
    /\ DOMAIN pool.byid # {}
    /\ ByIdTxs(pool) = ByFeeTxs(pool)

\* an input names an output that only a pending transaction has: the index
\* has no transaction of the id
OnlyPending(self, inv) ==
    /\ id_key(inv.out) \in DOMAIN self.pool.byid
    /\ ~LevelDB_has(self.leveldb, id_key(inv.out))
\* the coins of the pending transactions among those coins reports
PendingCoins(self, addr) ==
    {c \in coins(self, addr) : id_key(c.tx) \in DOMAIN self.pool.byid
                                  /\ ~LevelDB_has(self.leveldb, id_key(c.tx))}
\* C19: an output of a pending transaction is never the source of a spend:
\* the coins that coins reports for it carry the from-mempool flag, a coin
\* with that flag is valid at no height, and neither append nor link
\* accepts a transaction with an input naming such an output
C19_PendingOutputUnspendable ==
    [][/\ \A a \in {AccA, AccB} :
             /\ \A c \in PendingCoins(Self', Account_get_address(a)) :
                   /\ CoinAttr_is_txpool(c)
                   /\ \A h \in 0..(TipHeight(Self') + COINBASE_MATURITY + 1) :
                         ~CoinAttr_is_valid(c, h)
             /\ \A k \in DOMAIN pool'.byid : \A j \in 1..Len(pool'.byid[k].outs) :
                   TxOut_get_address(pool'.byid[k].outs[j]).val = Account_get_address(a)
                      => \E c \in PendingCoins(Self', Account_get_address(a)) :
                            c.tx = k[2] /\ c.idx = j - 1
                                        /\ c.value = pool'.byid[k].outs[j].value
       /\ (last'.op = "append" /\ last'.err = "")
             => \A inv \in PoolIns(pool', DOMAIN pool'.byid \ DOMAIN pool.byid) :
                   ~OnlyPending(Self, inv)
       /\ (last'.op = "link" /\ last'.err = "")
             => \A inv \in SpendingIns(BestBlock(Self')) : ~OnlyPending(Self, inv)]_vars
\* link has turned down a block that spends the output of a pending
\* transaction, which coins reports
C19_Witness ==
    /\ last.op = "link" /\ last.err # ""
    /\ PendingCoins(Self, Account_get_address(AccB)) # {}
\* append has turned down a transaction that spends the output of a pending
\* transaction
C19_WitnessAppend ==
    /\ last = [op |-> "append", err |-> "data empty"]
    /\ PendingCoins(Self, Account_get_address(AccB)) # {}

\* C20: under every interleaving of the calls threads make through Chain
\* the index holds one linear chain; a block whose link has returned Ok is
\* returned by get, equal in header and transactions, until it is popped;
\* no thread is inside a call while another is inside a writing call; and
\* what a reading call has read is still what the indexer holds
C20_Serialized ==
    /\ C4_OneLinearChain
    /\ \A t \in Threads : \A b \in thr[t].done :
          /\ IsOk(get(Self, id_key(Block_id(b))))
          /\ get(Self, id_key(Block_id(b))).val.header = b.header
          /\ get(Self, id_key(Block_id(b))).val.txs = b.txs
    /\ \A t \in Threads :
          thr[t].pc # "idle"
             => IF thr[t].call \in ReadCalls
                THEN rwlock.writer = 0 /\ t \in rwlock.readers
                ELSE rwlock.writer = t /\ rwlock.readers = {}
    /\ \A t \in Threads :
          (thr[t].pc = "ran" /\ thr[t].call \in ReadCalls)
             => thr[t].res.val = Exec(Self, thr[t].call, thr[t].arg).val
\* one thread has linked a block, and the link of the block another thread
\* had built on the same tip has been turned down
C20_Witness ==
    /\ last.op = "link" /\ last.err # ""
    /\ \E t \in Threads : thr[t].done # {}
    /\ \E t \in Threads : thr[t].pc = "in" /\ thr[t].call = "best"

\* C21: when threads each call new_block and then link on the block they
\* built, every link returns Ok, and the get of the id of a linked block
\* returns a block equal to it
C21_EveryThreadLinks ==
    \A t \in Threads :
       /\ (thr[t].pc = "ran" /\ thr[t].call = "link") => thr[t].res.err = ""
       /\ (thr[t].pc = "ran" /\ thr[t].call = "get")
             => /\ thr[t].res.err = ""
                /\ \A b \in thr[t].done :
                      thr[t].arg = id_key(Block_id(b))
                         => /\ thr[t].res.val.header = b.header
                            /\ thr[t].res.val.txs = b.txs

C22_WitnessGet ==
    \E t \in Threads :
       /\ thr[t].pc = "ran" /\ thr[t].call = "get" /\ thr[t].res.err = ""
       /\ rwlock = [writer |-> t, readers |-> {}]
       /\ \A u \in Threads \ {t} : thr[u].pc = "idle"

\* C24: after a crash every BlkAttr the index holds points at bytes the
\* block segments and the inverse segments hold
C24_IndexedBytesDurable ==
    last.op = "crash"
       => \A k \in DOMAIN disk.index :
             (k[1] = "hasher" /\ "bhv" \in DOMAIN disk.index[k])
                => /\ IsOk(Store_pull(Self.blk, disk.index[k].blk))
                   /\ IsOk(Store_pull(Self.rev, disk.index[k].rev))

\* C23: pull of a location an earlier push returned, by this store or by
\* one made on the directory before, returns the bytes that were pushed
C23_PullReturnsPushed ==
    eval.fn = "pull"
       => \A n \in 1..Len(locs) :
             locs[n].attr = eval.arg => eval.res = Ok(locs[n].bytes)
\* C25: the store holds at most 16 handles, the handle of the file written
\* to among them, and the handle a pull has opened to read is among them
\* when the pull returns
C25_HandlesCapped ==
    /\ Len(store.cache) <= MAX_CACHE_FILE
    /\ store.idx \in Cached(store)
    /\ (eval.fn = "pull" /\ IsOk(eval.res)) => eval.arg.idx \in Cached(store)

(***************************************************************************)
(* Script operations and limits (script.rs, consts.rs).                    *)
(***************************************************************************)
OP_00 == 0
OP_16 == 16
OP_FALSE == 144
OP_TRUE == 145
OP_NUMBER_1 == 160
OP_NUMBER_8 == 163
OP_DATA_1 == 176
OP_DATA_2 == 177
OP_DATA_4 == 178
OP_VERIFY == 192
OP_EQUAL == 193
OP_NOT == 194
OP_CHECKSIG == 195
OP_HASHER == 196
OP_EQUAL_VERIFY == 197
OP_CHECKSIG_VERIFY == 198
OP_VERIFY_INOUT == 199
MAX_SCRIPT_CB_SIZE == 128
MAX_SCRIPT_IN_SIZE == 2048
MAX_SCRIPT_OUT_SIZE == 2048
MAX_SCRIPT_SIZE == 4096
MAX_SCRIPT_OPS == 256
MAX_ACCOUNT_KEY_SIZE == 16
\* keys of the wallet accounts are generated from, messages that are signed
NumKeys == 5
NumMsgs == 2
\* bytes of a serialized public key and of a serialized signature
PubLen == 33
SigLen == 70
\* length of the byte sequences executed as scripts
MaxBytes == 3
\* length of the lists of ids a Merkle root is computed of
MaxIds == 5
\* the largest exponent of the bits converted to a target and back
MaxExp == 34
MaxList == 3
MaxSubs == 2
MaxNotify == 2
NumWorkers == 2
MaxPush == 6
MaxOps == 3

(***************************************************************************)
(* Scripts and accounts as bytes.  A script is the byte sequence its       *)
(* writer holds.  A public key and a signature are the bytes secp256k1     *)
(* serializes them to: key k of a wallet is one 33-byte blob, and the      *)
(* signature of key k over message m one DER blob.  Bytes of any other     *)
(* shape are no key and no signature.                                      *)
(***************************************************************************)
\* Error::IoBufReadErr
IoBufReadErr == Err("IoBufReadErr")
KeyIds == 0..(NumKeys - 1)
Msgs == 0..(NumMsgs - 1)
\* PubKey::into_bytes of the public key of private key k (compressed point)
PubKey_into_bytes(k) == <<2 + (k % 2)>> \o [i \in 1..(PubLen - 1) |-> k]
\* SigValue::into_bytes of the signature PriKey k makes over msg (DER)
PriKey_sign(k, msg) == <<48, SigLen - 2>> \o [i \in 1..(SigLen - 2) |-> 16 * msg + k]
\* FromBytes for PubKey: PublicKey::from_slice(bb).unwrap()
PubKey_from_bytes(bb) ==
    IF \E k \in KeyIds : bb = PubKey_into_bytes(k)
    THEN Ok(bb)
    ELSE Panic("unwrap on Err: InvalidPublicKey")
\* FromBytes for SigValue: Signature::from_der(bb).unwrap()
SigValue_from_bytes(bb) ==
    IF \E k \in KeyIds, m \in Msgs : bb = PriKey_sign(k, m)
    THEN Ok(bb)
    ELSE Panic("unwrap on Err: InvalidSignature")
\* PubKey::verify
PubKey_verify(pb, msg, sb) ==
    Ok(\E k \in KeyIds : pb = PubKey_into_bytes(k) /\ sb = PriKey_sign(k, msg))
\* Hasher::into_bytes: the two words of a digest, low byte first
Hasher_into_bytes(h) == <<h[1] % 256, h[1] \div 256, h[2] % 256, h[2] \div 256>>
\* PubKey::hash
PubKey_hash(pb) == Hash(pb)

\* Reader: the bytes bb read from position p on (p bytes are consumed).  A
\* read returns the value and the position after it.
Reader_remaining(bb, p) == Len(bb) - p
\* Reader::u8
Reader_u8(bb, p) ==
    IF Reader_remaining(bb, p) < 1 THEN IoBufReadErr
    ELSE Ok([v |-> bb[p + 1], p |-> p + 1])
\* little-endian number of the n bytes after position p
RECURSIVE LeNumber(_, _, _)
LeNumber(bb, p, n) ==
    IF n = 0 THEN 0 ELSE bb[p + 1] + 256 * LeNumber(bb, p + 1, n - 1)
\* Reader::u16, Reader::u32, Reader::u64
Reader_uint(bb, p, n) ==
    IF Reader_remaining(bb, p) < n THEN IoBufReadErr
    ELSE Ok([v |-> LeNumber(bb, p, n), p |-> p + n])
\* two's complement number of the n bytes after position p, low byte first
RECURSIVE LeSigned(_, _, _)
LeSigned(bb, p, n) ==
    IF n = 1 THEN (IF bb[p + 1] >= 128 THEN bb[p + 1] - 256 ELSE bb[p + 1])
    ELSE 256 * LeSigned(bb, p + 1, n - 1) + bb[p + 1]
\* Reader::i8, Reader::i16, Reader::i32, Reader::i64
Reader_int(bb, p, n) ==
    IF Reader_remaining(bb, p) < n THEN IoBufReadErr
    ELSE Ok([v |-> LeSigned(bb, p, n), p |-> p + n])
\* Reader::advance
Reader_advance(bb, p, cnt) ==
    IF Reader_remaining(bb, p) < cnt THEN IoBufReadErr
    ELSE Ok([v |-> <<>>, p |-> p + cnt])
\* Reader::length
Reader_length(bb, p, size) ==
    IF Reader_remaining(bb, p) < size THEN IoBufReadErr
    ELSE IF size = 1 THEN Reader_uint(bb, p, 1)
    ELSE IF size = 2 THEN Reader_uint(bb, p, 2)
    ELSE IF size = 3 THEN Reader_uint(bb, p, 4)
    ELSE IoBufReadErr
\* Reader::get_bytes
Reader_get_bytes(bb, p, size) ==
    IF Reader_remaining(bb, p) < size THEN IoBufReadErr
    ELSE Ok([v |-> SubSeq(bb, p + 1, p + size), p |-> p + size])
\* Reader::usize
Reader_usize(bb, p) ==
    Bind(Reader_u8(bb, p), LAMBDA b :
      IF ~IsOk(b) THEN b
      ELSE IF b.val.v < 128 THEN b
      ELSE Bind(Reader_u8(bb, b.val.p), LAMBDA b2 :
             IF ~IsOk(b2) THEN b2
             ELSE Ok([v |-> (b.val.v % 128) * 256 + b2.val.v, p |-> b2.val.p])))
\* Reader::get::<T>, T::from_bytes being FromBytes
Reader_get(bb, p, FromBytes(_)) ==
    Bind(Reader_usize(bb, p), LAMBDA size :
      IF ~IsOk(size) THEN size
      ELSE Bind(Reader_get_bytes(bb, size.val.p, size.val.v), LAMBDA vp :
             IF ~IsOk(vp) THEN vp
             ELSE Bind(FromBytes(vp.val.v), LAMBDA t :
                    IF ~IsOk(t) THEN t
                    ELSE Ok([v |-> t.val, p |-> vp.val.p]))))
\* Writer::usize: sizes above 0x7FFF fail its assertion
Writer_usize_asserts(size) == size > 32767
\* Writer::usize, the bytes written for a size of at most 0x7FFF
Writer_usize(size) ==
    IF size <= 127 THEN <<size>>
    ELSE <<((size \div 256) % 256) + 128, size % 256>>
\* Writer::u8, u16, u32, u64, i8, i16, i32, i64: the n bytes of v, low first
RECURSIVE Writer_int(_, _)
Writer_int(v, n) == IF n = 0 THEN <<>> ELSE <<v % 256>> \o Writer_int(v \div 256, n - 1)
\* Writer::put of a value whose into_bytes is bb
Writer_put(bb) == Writer_usize(Len(bb)) \o bb

\* Option::None in a key or signature slot; Some(v) is v, never empty
None == <<>>
\* the Some values of a vector of options, in order
RECURSIVE Somes(_)
Somes(v) ==
    IF Len(v) = 0 THEN <<>>
    ELSE IF v[1] = None THEN Somes(Tail(v)) ELSE <<v[1]>> \o Somes(Tail(v))
\* Account::pubs_size, Account::sigs_size
Account_pubs_size(acc) == Len(Somes(acc.pubs))
Account_sigs_size(acc) == Len(Somes(acc.sigs))
\* an arbiter that is never enabled
Account_use_arb_never(acc) == FALSE
\* Account::use_arb
Account_use_arb(acc) == acc.arb # 255 /\ acc.arb = acc.num - 1
\* Account::check
Account_check(acc) ==
    IF acc.num < 1 \/ acc.num > MAX_ACCOUNT_KEY_SIZE THEN FALSE
    ELSE IF acc.less < 1 \/ acc.less > acc.num THEN FALSE
    ELSE IF Account_use_arb(acc) /\ acc.num < 2 THEN FALSE
    ELSE IF Account_use_arb(acc) /\ acc.arb # acc.num - 1 THEN FALSE
    ELSE TRUE
\* Account::check_with_pubs
Account_check_with_pubs(acc) ==
    IF ~Account_check(acc) THEN FALSE
    ELSE IF Account_pubs_size(acc) # acc.num THEN FALSE
    ELSE TRUE
\* Account::new; initialize gives slot i key i of the wallet.  num - 1 is
\* computed in u8: with num = 0 it panics in a build with overflow checks
\* and wraps to 255 in one without.
Account_new(num, less, arb, is_gen, overflow_checks) ==
    IF arb /\ num = 0 /\ overflow_checks
    THEN Panic("attempt to subtract with overflow")
    ELSE Bind([num |-> num, less |-> less,
               arb |-> IF arb THEN (num + 255) % 256 ELSE 255,
               pris |-> [i \in 1..num |-> IF is_gen THEN <<i - 1>> ELSE None],
               pubs |-> [i \in 1..num |-> IF is_gen THEN PubKey_into_bytes(i - 1) ELSE None],
               sigs |-> [i \in 1..num |-> None]], LAMBDA acc :
           IF ~Account_check(acc) THEN Err("InvalidAccount") ELSE Ok(acc))
\* Account::sign_with_index (idx counts from 0)
Account_sign_with_index(acc, idx, msg) ==
    IF idx >= Len(acc.pris) THEN Err("InvalidParam")
    ELSE IF acc.pris[idx + 1] = None THEN Err("InvalidPrivateKey")
    ELSE Ok([acc EXCEPT !.sigs[idx + 1] = PriKey_sign(acc.pris[idx + 1][1], msg)])
\* Writer::put of each value of a sequence
RECURSIVE PutAll(_)
PutAll(v) == IF Len(v) = 0 THEN <<>> ELSE Writer_put(v[1]) \o PutAll(Tail(v))
\* IntoBytes for Account
Account_into_bytes(acc) ==
    <<acc.num, acc.less, acc.arb, Account_pubs_size(acc)>> \o PutAll(Somes(acc.pubs))
    \o <<Account_sigs_size(acc)>> \o PutAll(Somes(acc.sigs))
\* FromBytes for Account, the loop that fills field f with n values read by
\* r.get(): the value is read before the slot is indexed
RECURSIVE Account_from_bytes_fill(_, _, _, _, _, _)
Account_from_bytes_fill(bb, p, acc, f, i, n) ==
    IF i >= n THEN Ok([v |-> acc, p |-> p])
    ELSE Bind(IF f = "pubs" THEN Reader_get(bb, p, PubKey_from_bytes)
              ELSE Reader_get(bb, p, SigValue_from_bytes), LAMBDA g :
           IF ~IsOk(g) THEN g
           ELSE IF i >= Len(acc[f])
           THEN Panic("index out of bounds")
           ELSE Account_from_bytes_fill(bb, g.val.p, [acc EXCEPT ![f][i + 1] = g.val.v],
                                        f, i + 1, n))
\* FromBytes for Account
Account_from_bytes(bb, overflow_checks) ==
    Bind(Reader_u8(bb, 0), LAMBDA num :
    IF ~IsOk(num) THEN num ELSE
    Bind(Reader_u8(bb, num.val.p), LAMBDA less :
    IF ~IsOk(less) THEN less ELSE
    Bind(Reader_u8(bb, less.val.p), LAMBDA arb :
    IF ~IsOk(arb) THEN arb ELSE
    Bind(Account_new(num.val.v, less.val.v, arb.val.v # 255, FALSE, overflow_checks),
         LAMBDA acc :
    IF ~IsOk(acc) THEN acc ELSE
    Bind(Reader_u8(bb, arb.val.p), LAMBDA np :
    IF ~IsOk(np) THEN np ELSE
    Bind(Account_from_bytes_fill(bb, np.val.p, acc.val, "pubs", 0, np.val.v),
         LAMBDA pubs :
    IF ~IsOk(pubs) THEN pubs ELSE
    Bind(Reader_u8(bb, pubs.val.p), LAMBDA ns :
    IF ~IsOk(ns) THEN ns ELSE
    Bind(Account_from_bytes_fill(bb, ns.val.p, pubs.val.v, "sigs", 0, ns.val.v),
         LAMBDA sigs :
    IF ~IsOk(sigs) THEN sigs
    ELSE IF ~Account_check_with_pubs(sigs.val.v) THEN Err("InvalidAccount")
    ELSE Ok(sigs.val.v)))))))))
\* Hasher::into_bytes of each value of a sequence of public keys' hashes
RECURSIVE PubHashes(_)
PubHashes(v) ==
    IF Len(v) = 0 THEN <<>>
    ELSE Hasher_into_bytes(PubKey_hash(v[1])) \o PubHashes(Tail(v))
\* Account::hash
Account_hash(acc) ==
    IF ~Account_check(acc) THEN Err("InvalidAccount")
    ELSE IF Account_pubs_size(acc) # acc.num THEN Err("InvalidPublicKey")
    ELSE Ok(Hash(<<acc.num, acc.less, acc.arb, Account_pubs_size(acc)>>
                 \o PubHashes(Somes(acc.pubs))))
\* Account::verify_with_public (ipub counts from 0)
Account_verify_with_public(acc, ipub, msg) ==
    IF ipub >= Len(acc.pubs) THEN Err("InvalidParam")
    ELSE IF acc.pubs[ipub + 1] = None THEN Err("InvalidPublicKey")
    ELSE IF \E n \in 1..Len(acc.sigs) :
               /\ acc.sigs[n] # None
               /\ PubKey_verify(acc.pubs[ipub + 1], msg, acc.sigs[n]) = Ok(TRUE)
    THEN Ok(TRUE)
    ELSE Err("VerifySignErr")
\* Account::verify_with_index (ipub and isig count from 0)
Account_verify_with_index(acc, ipub, isig, msg) ==
    IF ipub >= Len(acc.pubs) THEN Err("InvalidParam")
    ELSE IF isig >= Len(acc.sigs) THEN Err("InvalidParam")
    ELSE IF acc.pubs[ipub + 1] # None /\ acc.sigs[isig + 1] # None
    THEN PubKey_verify(acc.pubs[ipub + 1], msg, acc.sigs[isig + 1])
    ELSE Err("InvalidParam")
\* Account::verify, the loop over signature i and public key j with less
\* signatures still to find
RECURSIVE Account_verify_loop(_, _, _, _, _)
Account_verify_loop(acc, msg, less, i, j) ==
    IF ~(i < Len(acc.sigs) /\ j < Len(acc.pubs)) THEN Ok(less = 0)
    ELSE IF acc.sigs[i + 1] = None THEN Account_verify_loop(acc, msg, less, i + 1, j)
    ELSE Bind(Account_verify_with_index(acc, j, i, msg), LAMBDA rb :
           Bind(IF IsOk(rb) /\ rb.val THEN [less |-> less - 1, i |-> i + 1]
                ELSE [less |-> less, i |-> i], LAMBDA s :
             IF s.less = 0 THEN Ok(TRUE)
             ELSE Account_verify_loop(acc, msg, s.less, s.i, j + 1)))
\* a verify that goes on to the threshold when the arbiter key verifies no
\* signature
Account_verify_or_threshold(acc, msg) ==
    IF ~Account_check_with_pubs(acc) THEN Err("InvalidAccount")
    ELSE IF Account_sigs_size(acc) < 1 THEN Err("InvalidAccount")
    ELSE IF Account_use_arb(acc) /\ IsOk(Account_verify_with_public(acc, acc.arb, msg))
    THEN Ok(TRUE)
    ELSE Account_verify_loop(acc, msg, acc.less, 0, 0)
\* Account::verify
Account_verify(acc, msg) ==
    IF ~Account_check_with_pubs(acc) THEN Err("InvalidAccount")
    ELSE IF ~Account_use_arb(acc) /\ Account_sigs_size(acc) < acc.less
    THEN Err("InvalidAccount")
    ELSE IF Account_use_arb(acc) /\ Account_sigs_size(acc) < 1 THEN Err("InvalidAccount")
    ELSE IF Account_use_arb(acc) THEN Account_verify_with_public(acc, acc.arb, msg)
    ELSE Account_verify_loop(acc, msg, acc.less, 0, 0)

\* Script::from
Script_from(typ) == <<OP_TYPE, typ>>
\* Script::data
Script_data(v) ==
    IF Len(v) = 0 THEN <<>>
    ELSE IF Len(v) <= 255 THEN <<OP_DATA_1, Len(v)>> \o v
    ELSE IF Len(v) <= 65535 THEN <<OP_DATA_2, Len(v) % 256, Len(v) \div 256>> \o v
    ELSE <<OP_DATA_4, Len(v) % 256, (Len(v) \div 256) % 256,
           (Len(v) \div 65536) % 256, Len(v) \div 16777216>> \o v
\* Script::concat
Script_concat(s, t) == s \o t
\* Script::get_type
Script_get_type(s) ==
    IF Len(s) < 2 THEN Err("ScriptFmtErr")
    ELSE IF s[1] # OP_TYPE THEN Err("ScriptFmtErr")
    ELSE Ok(s[2])
\* Script::max_size
Script_max_size(s) ==
    IF ~IsOk(Script_get_type(s)) THEN Script_get_type(s)
    ELSE IF Script_get_type(s).val = SCRIPT_TYPE_CB THEN Ok(MAX_SCRIPT_CB_SIZE)
    ELSE IF Script_get_type(s).val = SCRIPT_TYPE_IN THEN Ok(MAX_SCRIPT_IN_SIZE)
    ELSE IF Script_get_type(s).val = SCRIPT_TYPE_OUT THEN Ok(MAX_SCRIPT_OUT_SIZE)
    ELSE Err("ScriptFmtErr")
\* Script::ops, one turn of the loop: r is the reader position p and the
\* count ops, or the result the loop has returned with
Script_ops_turn(s, r) ==
    IF r.done THEN r
    ELSE Bind(Reader_u8(s, r.p), LAMBDA op :
      Bind(IF ~IsOk(op) THEN op
           ELSE IF op.val.v = OP_TYPE THEN Reader_advance(s, op.val.p, 1)
           ELSE IF op.val.v >= OP_NUMBER_1 /\ op.val.v <= OP_NUMBER_8
           THEN Reader_advance(s, op.val.p, 2 ^ (op.val.v - OP_NUMBER_1))
           ELSE IF op.val.v >= OP_DATA_1 /\ op.val.v <= OP_DATA_4
           THEN Bind(Reader_length(s, op.val.p, op.val.v - OP_DATA_1 + 1), LAMBDA l :
                  IF ~IsOk(l) THEN l ELSE Reader_advance(s, l.val.p, l.val.v))
           ELSE Ok([v |-> <<>>, p |-> op.val.p]), LAMBDA a :
        IF ~IsOk(a) THEN [done |-> TRUE, err |-> a.err, ops |-> r.ops + 1, p |-> r.p]
        ELSE IF r.ops + 1 > MAX_SCRIPT_OPS
        THEN [done |-> TRUE, err |-> "ScriptFmtErr", ops |-> r.ops + 1, p |-> a.val.p]
        ELSE [done |-> Reader_remaining(s, a.val.p) = 0, err |-> "",
              ops |-> r.ops + 1, p |-> a.val.p]))
\* n turns of a loop, or as many as it takes before it returns
RECURSIVE Script_ops_loop(_, _, _)
Script_ops_loop(s, r, n) ==
    IF r.done \/ n = 0 THEN r
    ELSE IF n = 1 THEN Script_ops_turn(s, r)
    ELSE Script_ops_loop(s, Script_ops_loop(s, r, n \div 2), n - (n \div 2))
\* Script::ops; the loop returns before turn MAX_SCRIPT_OPS + 2
Script_ops(s) ==
    IF Len(s) > MAX_SCRIPT_SIZE THEN Err("ScriptFmtErr")
    ELSE IF Len(s) = 0 THEN Err("ScriptEmptyErr")
    ELSE Bind(Script_ops_loop(s, [done |-> FALSE, err |-> "", ops |-> 0, p |-> 0],
                              MAX_SCRIPT_OPS + 1), LAMBDA r :
           IF r.err # "" THEN Err(r.err) ELSE Ok(r.ops))
\* Script::check
Script_check(s) ==
    IF Len(s) > MAX_SCRIPT_SIZE THEN Err("ScriptFmtErr")
    ELSE IF Len(s) = 0 THEN Err("ScriptFmtErr")
    ELSE IF ~IsOk(Script_max_size(s)) THEN Script_max_size(s)
    ELSE IF Len(s) > Script_max_size(s).val THEN Err("ScriptFmtErr")
    ELSE IF ~IsOk(Script_ops(s)) THEN Script_ops(s)
    ELSE IF Script_ops(s).val > MAX_SCRIPT_OPS THEN Err("ScriptFmtErr")
    ELSE Ok(<<>>)
\* Script::new_script_in, the script as bytes
Script_new_script_in(acc) ==
    Bind(Script_from(SCRIPT_TYPE_IN) \o Script_data(Account_into_bytes(acc)), LAMBDA s :
      IF ~IsOk(Script_check(s)) THEN Script_check(s) ELSE Ok(s))
\* Script::new_script_out, the script as bytes
Script_new_script_out(hasher) ==
    Bind(Script_from(SCRIPT_TYPE_OUT) \o <<OP_VERIFY_INOUT, OP_HASHER>>
         \o Script_data(Hasher_into_bytes(hasher))
         \o <<OP_EQUAL_VERIFY, OP_CHECKSIG_VERIFY>>, LAMBDA s :
      IF ~IsOk(Script_check(s)) THEN Script_check(s) ELSE Ok(s))

\* Ele, the stack element
EleBool(v) == [t |-> "Bool", v |-> v]
EleNumber(v) == [t |-> "Number", v |-> v]
EleData(v) == [t |-> "Data", v |-> v]
\* PartialEq for Ele
Ele_eq(l, r) == l.t = r.t /\ l.v = r.v
\* TryFrom<&Ele> for bool
Ele_try_into_bool(ele) ==
    IF ele.t = "Bool" THEN Ok(ele.v) ELSE Err("StackEleTypeErr")
\* TryFrom<&Ele> for Account
Ele_try_into_Account(ele, overflow_checks) ==
    IF ele.t = "Data" THEN Account_from_bytes(ele.v, overflow_checks)
    ELSE Err("StackEleTypeErr")
\* Exector::new
Exector_new == [eles |-> <<>>, typs |-> <<>>]
\* Exector::check
Exector_check(self, l) ==
    IF Len(self.eles) < l THEN Err("StackLenErr") ELSE Ok(Len(self.eles))
\* Exector::top(-n)
Exector_top(self, n) == self.eles[Len(self.eles) + 1 - n]
\* Exector::pop
Exector_pop(self, n) == [self EXCEPT !.eles = SubSeq(self.eles, 1, Len(self.eles) - n)]
\* Vec::push on the stack
Exector_push(self, ele) == [self EXCEPT !.eles = Append(self.eles, ele)]
\* ExectorEnv::verify_sign: TestEnv verifies the account with Account::verify
\* over the message it knows; the InEnv of Script::encode_sign panics; any
\* other implementor answers what it is built to answer
ExectorEnv_verify_sign(env, ele, overflow_checks) ==
    IF env.impl = "TestEnv"
    THEN Bind(Ele_try_into_Account(ele, overflow_checks), LAMBDA a :
           IF ~IsOk(a) THEN a ELSE Account_verify(a.val, env.msg))
    ELSE IF env.impl = "InEnv" THEN Panic("not run here!!!")
    ELSE IF env.err # "" THEN Err(env.err)
    ELSE Ok(env.val)
\* a kind register that is never looked at
Exector_verify_inout_any(self) == Ok(<<>>)
\* Exector::exec, OP_VERIFY_INOUT
Exector_verify_inout(self) ==
    IF Len(self.typs) # 2 THEN Err("ScriptExeErr")
    ELSE IF self.typs # <<SCRIPT_TYPE_IN, SCRIPT_TYPE_OUT>> THEN Err("ScriptExeErr")
    ELSE Ok(<<>>)
\* the executor and the reader position after an operation
Stepped(self, p) == Ok([self |-> self, p |-> p])
\* Exector::exec, a read r of the operand followed by the push of the
\* element made of it
PushRead(self, r, Ele(_)) ==
    IF ~IsOk(r) THEN r ELSE Stepped(Exector_push(self, Ele(r.val.v)), r.val.p)
\* Exector::exec, the match on the operation op read before position p
Exector_exec_op(self, s, p, op, env, overflow_checks) ==
    IF op = OP_TYPE
    THEN Bind(Reader_u8(s, p), LAMBDA typ :
           IF ~IsOk(typ) THEN typ
           ELSE Stepped([self EXCEPT !.typs = Append(self.typs, typ.val.v)], typ.val.p))
    ELSE IF op = OP_TRUE \/ op = OP_FALSE
    THEN Stepped(Exector_push(self, EleBool(op = OP_TRUE)), p)
    ELSE IF op >= OP_00 /\ op <= OP_16
    THEN Stepped(Exector_push(self, EleNumber(op)), p)
    ELSE IF op >= OP_NUMBER_1 /\ op <= OP_NUMBER_8
    THEN PushRead(self, Reader_int(s, p, 2 ^ (op - OP_NUMBER_1)), EleNumber)
    ELSE IF op >= OP_DATA_1 /\ op <= OP_DATA_4
    THEN Bind(Reader_uint(s, p, 2 ^ (op - OP_DATA_1)), LAMBDA l :
           IF ~IsOk(l) THEN l
           ELSE PushRead(self, Reader_get_bytes(s, l.val.p, l.val.v), EleData))
    ELSE IF op = OP_VERIFY
    THEN IF ~IsOk(Exector_check(self, 1)) THEN Exector_check(self, 1)
         ELSE Bind(Ele_try_into_bool(Exector_top(self, 1)), LAMBDA val :
                IF ~IsOk(val) THEN val
                ELSE IF ~val.val THEN Err("ScriptVerifyErr")
                ELSE Stepped(Exector_pop(self, 1), p))
    ELSE IF op = OP_HASHER
    THEN IF ~IsOk(Exector_check(self, 1)) THEN Exector_check(self, 1)
         ELSE Bind(Ele_try_into_Account(Exector_top(self, 1), overflow_checks), LAMBDA acc :
                IF ~IsOk(acc) THEN acc
                ELSE Bind(Account_hash(acc.val), LAMBDA hv :
                       IF ~IsOk(hv) THEN hv
                       ELSE Stepped(Exector_push(self, EleData(Hasher_into_bytes(hv.val))),
                                    p)))
    ELSE IF op = OP_EQUAL \/ op = OP_EQUAL_VERIFY
    THEN IF ~IsOk(Exector_check(self, 2)) THEN Exector_check(self, 2)
         ELSE Bind(Ele_eq(Exector_top(self, 1), Exector_top(self, 2)), LAMBDA val :
                IF op = OP_EQUAL_VERIFY
                THEN IF ~val THEN Err("ScriptVerifyErr")
                     ELSE Stepped(Exector_pop(self, 2), p)
                ELSE Stepped(Exector_push(Exector_pop(self, 2), EleBool(val)), p))
    ELSE IF op = OP_NOT
    THEN IF ~IsOk(Exector_check(self, 1)) THEN Exector_check(self, 1)
         ELSE Bind(Ele_try_into_bool(Exector_top(self, 1)), LAMBDA val :
                IF ~IsOk(val) THEN val
                ELSE Stepped(Exector_push(Exector_pop(self, 1), EleBool(~val.val)), p))
    ELSE IF op = OP_CHECKSIG \/ op = OP_CHECKSIG_VERIFY
    THEN IF ~IsOk(Exector_check(self, 1)) THEN Exector_check(self, 1)
         ELSE Bind(ExectorEnv_verify_sign(env, Exector_top(self, 1), overflow_checks),
                   LAMBDA val :
                IF ~IsOk(val) THEN val
                ELSE IF op = OP_CHECKSIG_VERIFY
                THEN IF ~val.val THEN Err("ScriptCheckSigErr")
                     ELSE Stepped(Exector_pop(self, 1), p)
                ELSE Stepped(Exector_push(Exector_pop(self, 1), EleBool(val.val)), p))
    ELSE IF op = OP_VERIFY_INOUT
    THEN IF ~IsOk(Exector_verify_inout(self)) THEN Exector_verify_inout(self)
         ELSE Stepped(self, p)
    ELSE Err("ScriptFmtErr")
\* Exector::exec, one turn of the loop: r is the executor, the reader
\* position p and the count step, or the result the loop has returned with
Exector_exec_turn(s, r, env, overflow_checks) ==
    IF r.done THEN r
    ELSE Bind(Exector_exec_op(r.self, s, r.p + 1, s[r.p + 1], env, overflow_checks),
              LAMBDA a :
      IF ~IsOk(a) THEN [r EXCEPT !.done = TRUE, !.err = a.err, !.val = a.val]
      ELSE IF r.step + 1 > MAX_SCRIPT_OPS
      THEN [done |-> TRUE, err |-> "ScriptFmtErr", val |-> <<>>, self |-> a.val.self,
            p |-> a.val.p, step |-> r.step + 1]
      ELSE [done |-> Reader_remaining(s, a.val.p) = 0, err |-> "", val |-> <<>>,
            self |-> a.val.self, p |-> a.val.p, step |-> r.step + 1])
\* n turns of the loop, or as many as it takes before it returns
RECURSIVE Exector_exec_loop(_, _, _, _, _)
Exector_exec_loop(s, r, env, overflow_checks, n) ==
    IF r.done \/ n = 0 THEN r
    ELSE IF n = 1 THEN Exector_exec_turn(s, r, env, overflow_checks)
    ELSE Exector_exec_loop(s, Exector_exec_loop(s, r, env, overflow_checks, n \div 2),
                           env, overflow_checks, n - (n \div 2))
\* Exector::exec; the loop returns before turn MAX_SCRIPT_OPS + 2.  The value
\* is the step count, and the executor as the call leaves it
Exector_exec(self, s, env, overflow_checks) ==
    IF Len(s) > MAX_SCRIPT_SIZE THEN [err |-> "ScriptFmtErr", val |-> <<>>, self |-> self]
    ELSE IF Len(s) = 0 THEN [err |-> "ScriptEmptyErr", val |-> <<>>, self |-> self]
    ELSE Bind(Exector_exec_loop(s, [done |-> FALSE, err |-> "", val |-> <<>>, self |-> self,
                                    p |-> 0, step |-> 0],
                                env, overflow_checks, MAX_SCRIPT_OPS + 1), LAMBDA r :
           IF r.err # "" THEN [err |-> r.err, val |-> r.val, self |-> r.self]
           ELSE [err |-> "", val |-> r.step, self |-> r.self])

(***************************************************************************)
(* SpecScript: scripts are built and executed, accounts are signed and     *)
(* verified, Merkle roots are computed.  The state holds one call: its     *)
(* arguments, and after the call its result.                               *)
(***************************************************************************)
\* Account::new(num, less, arb, true) for the shapes of account used
AccountShapes ==
    {<<1, 1, FALSE>>, <<2, 1, FALSE>>, <<2, 2, FALSE>>, <<3, 2, FALSE>>,
     <<3, 2, TRUE>>, <<3, 3, FALSE>>, <<NumKeys, 2, FALSE>>}
\* sign_with_index for every slot i the pattern gives a message
RECURSIVE SignSlots(_, _, _)
SignSlots(acc, pat, i) ==
    IF i > Len(pat) THEN acc
    ELSE IF pat[i] = -1 THEN SignSlots(acc, pat, i + 1)
    ELSE SignSlots(Account_sign_with_index(acc, i - 1, pat[i]).val, pat, i + 1)
Min(a, b) == IF a < b THEN a ELSE b
\* the accounts of a shape with signatures in their first three slots
Signed(shape) ==
    {SignSlots(Account_new(shape[1], shape[2], shape[3], TRUE, TRUE).val, pat, 1) :
        pat \in [1..Min(shape[1], 3) -> {-1} \cup Msgs]}
\* implementors of ExectorEnv
Envs ==
    {[impl |-> "TestEnv", msg |-> 0, err |-> "", val |-> TRUE]}
    \cup {[impl |-> "const", msg |-> 0, err |-> "", val |-> v] : v \in BOOLEAN}
    \cup {[impl |-> "const", msg |-> 0, err |-> "VerifySignErr", val |-> FALSE]}
\* an executor is new, or has executed the script Script::from(SCRIPT_TYPE_IN)
Exectors ==
    {Exector_new,
     Exector_exec(Exector_new, Script_from(SCRIPT_TYPE_IN), CHOOSE e \in Envs : TRUE,
                  TRUE).self}
\* test_base_inout_script: new_script_in of an account, concat with
\* new_script_out of an address, exec
InOutCalls ==
    {[call |-> "inout", self |-> x, acc |-> a, addr |-> h, env |-> e,
      overflow_checks |-> TRUE,
      script |-> Script_concat(Script_new_script_in(a).val, Script_new_script_out(h).val)] :
        x \in Exectors, e \in Envs,
        a \in UNION {Signed(shape) : shape \in AccountShapes},
        h \in {Account_hash(Account_new(shape[1], shape[2], shape[3], TRUE, TRUE).val).val :
                  shape \in {<<2, 2, FALSE>>, <<NumKeys, 2, FALSE>>}}}
\* sequences of at most n bytes of the set bs
RECURSIVE SeqsUpTo(_, _)
SeqsUpTo(bs, n) ==
    IF n = 0 THEN {<<>>}
    ELSE SeqsUpTo(bs, n - 1)
         \cup {Append(s, b) : s \in {t \in SeqsUpTo(bs, n - 1) : Len(t) = n - 1}, b \in bs}
\* n times the byte b
Repeat(b, n) == [i \in 1..n |-> b]
\* operations, an operand byte and a byte that is no operation
ScriptBytes ==
    {1, 80, OP_TRUE, OP_FALSE, OP_NUMBER_1, OP_DATA_1, OP_TYPE, OP_VERIFY, OP_EQUAL,
     OP_NOT, OP_CHECKSIG, OP_HASHER, OP_VERIFY_INOUT}
\* scripts at the limits of size and of operations
LongScripts ==
    {Repeat(OP_TRUE, MAX_SCRIPT_OPS), Repeat(OP_TRUE, MAX_SCRIPT_OPS + 1),
     Repeat(OP_TRUE, MAX_SCRIPT_SIZE + 1),
     Script_data(Repeat(0, MAX_SCRIPT_SIZE - 3)),
     Script_data(Repeat(0, MAX_SCRIPT_SIZE - 2)),
     Repeat(OP_TRUE, MAX_SCRIPT_OPS - 1) \o <<OP_DATA_1, 2, 0>>,
     Repeat(OP_TRUE, MAX_SCRIPT_OPS - 1) \o <<80>>}
\* an account of two keys that both signed message 0, as bytes
TwoSigned ==
    Account_into_bytes(
        SignSlots(Account_new(2, 2, FALSE, TRUE, TRUE).val, <<0, 0>>, 1))
\* bytes pushed as an account: the bytes of an account cut short, with a
\* byte changed, with more keys than slots, with an empty key, with no slot
AccountBytes ==
    {SubSeq(TwoSigned, 1, n) : n \in 0..Len(TwoSigned)}
    \cup {[TwoSigned EXCEPT ![n] = 255 - TwoSigned[n]] : n \in {1, 2, 3, 4, 5, 6, PubLen + 7, 2 * PubLen + 9}}
    \cup {<<1, 1, 255, 2>> \o Writer_put(PubKey_into_bytes(0))
              \o Writer_put(PubKey_into_bytes(1)) \o <<0>>,
          <<NumKeys, 1, 255, 1, 0>>,
          <<0, 1, 0, 0, 0>>,
          <<0, 0, 255, 0, 0>>}
\* exec of a script that was not built by this program
BytesCalls ==
    {[call |-> "bytes", self |-> Exector_new, env |-> e, overflow_checks |-> oc,
      script |-> s] :
        e \in {x \in Envs : x.err = "" /\ x.val},
        oc \in BOOLEAN,
        s \in SeqsUpTo(ScriptBytes, MaxBytes) \cup LongScripts
              \cup {Script_data(bb) \o <<op>> :
                       bb \in AccountBytes, op \in {OP_HASHER, OP_CHECKSIG}}}
\* Account::verify of an account as it was signed, and of the account read
\* back from its bytes
\* MerkleTree::compute of a list of ids: lists of a few ids in every order,
\* with repetitions, and the lists of test_merkle1 and test_merkle2
ComputeCalls ==
    {[call |-> "compute", ids |-> ids] :
        ids \in SeqsUpTo({Hash(<<i>>) : i \in 0..2}, MaxIds)
                \cup {[i \in 1..7 |-> Hash(<<i - 1>>)], [i \in 1..10 |-> Hash(<<i + 9>>)]}}
VerifyShapes ==
    {s \in (1..3) \X (1..3) \X BOOLEAN : IsOk(Account_new(s[1], s[2], s[3], TRUE, TRUE))}
VerifyCalls ==
    {[call |-> "verify", acc |-> a, msg |-> 0] :
        a \in UNION {
            {x, Account_from_bytes(Account_into_bytes(x), TRUE).val} :
               x \in UNION {
                  {SignSlots(Account_new(s[1], s[2], s[3], TRUE, TRUE).val, pat, 1) :
                      pat \in [1..s[1] -> {-1} \cup Msgs]} :
                  s \in VerifyShapes} }}

(***************************************************************************)
(* Compact targets at full width.  A BigUint is the sequence of its bytes, *)
(* lowest first, the highest not zero; a Hasher is its 32 bytes, lowest    *)
(* first.                                                                  *)
(***************************************************************************)
\* bytes of a Hasher
SIZE == 32
\* a sequence of bytes without the zero bytes at its high end
RECURSIVE Normal(_)
Normal(bb) ==
    IF Len(bb) = 0 \/ bb[Len(bb)] # 0 THEN bb ELSE Normal(SubSeq(bb, 1, Len(bb) - 1))
\* BigUint::from_u32 of a number below 2^24
BigUint_from_u32(w) == Normal(<<w % 256, (w \div 256) % 256, w \div 65536>>)
\* BigUint << of whole bytes
BigUint_shl(v, bytes) == IF Len(v) = 0 THEN v ELSE Repeat(0, bytes) \o v
\* BigUint >> of whole bytes
BigUint_shr(v, bytes) == IF bytes >= Len(v) THEN <<>> ELSE SubSeq(v, bytes + 1, Len(v))
\* From<&BigUint> for Hasher: clone_from_slice needs slices of one length
Hasher_from_BigUint(v) ==
    IF Len(v) > SIZE THEN Panic("source slice length does not match destination slice length")
    ELSE Ok(v \o Repeat(0, SIZE - Len(v)))
\* From<&Hasher> for BigUint
BigUint_from_Hasher(h) == Normal(h)
\* TryFrom<u32> for Hasher (Hasher::from_compact) on the bytes of the target
Hasher_try_from_u32(value) ==
    Bind(value \div 16777216, LAMBDA size :
      Bind(value % 8388608, LAMBDA w :
        IF size <= 3
        THEN Hasher_from_BigUint(BigUint_from_u32(w \div (2 ^ (8 * (3 - size)))))
        ELSE Hasher_from_BigUint(BigUint_shl(BigUint_from_u32(w), size - 3))))
\* Hasher::low64 of a BigUint below 2^24
low64(v) == LeNumber(v \o <<0, 0, 0>>, 0, 3)
\* a compact that leaves bit 23 of the mantissa set
Hasher_compact_signed(h) ==
    Bind(BigUint_from_Hasher(h), LAMBDA b :
      IF Len(b) <= 3 THEN low64(b) * (2 ^ (8 * (3 - Len(b)))) + Len(b) * 16777216
      ELSE low64(BigUint_shr(b, Len(b) - 3)) + Len(b) * 16777216)
\* Hasher::compact on the bytes of the target
Hasher_compact(h) ==
    Bind(BigUint_from_Hasher(h), LAMBDA b :
      Bind(IF Len(b) <= 3 THEN low64(b) * (2 ^ (8 * (3 - Len(b))))
           ELSE low64(BigUint_shr(b, Len(b) - 3)), LAMBDA cv :
        IF (cv \div 8388608) % 2 = 1
        THEN (cv \div 256) + (Len(b) + 1) * 16777216
        ELSE cv + Len(b) * 16777216))
\* bits with exponent e and mantissa m
Bits(e, m) == e * 16777216 + m
\* Hasher::try_from(bits).compact() of the bits of every exponent up to the
\* first whose targets need more than 32 bytes, mantissas with bytes low,
\* high and zero, and the bits of test_compact
CompactCalls ==
    {[call |-> "compact", bits |-> b] :
        b \in {Bits(e, hi * 65536 + mid * 256 + lo) :
                  e \in 0..MaxExp, hi \in {0, 1, 18, 127}, mid \in {0, 52, 128, 255},
                  lo \in {0, 86, 255}}
              \cup {386771105, 486604799, 453281356, 436591499, 402691653}}

(***************************************************************************)
(* Serializer: encode gives the bytes written, or the panic of             *)
(* Writer::usize; decode reads bb from position p and gives the value and  *)
(* the position after it.  A digest is written as its two words.           *)
(***************************************************************************)
\* both encodings, one after the other
Cat(a, b) == IF ~IsOk(a) THEN a ELSE IF ~IsOk(b) THEN b ELSE Ok(a.val \o b.val)
\* Hasher::with_bytes of the bytes of a digest
Hasher_with_bytes(b) == <<b[1] + 256 * b[2], b[3] + 256 * b[4]>>
\* Serializer for Hasher
Hasher_encode(h) == Ok(Hasher_into_bytes(h))
Hasher_decode(bb, p) ==
    Bind(Reader_get_bytes(bb, p, Len(Hasher_into_bytes(Zero))), LAMBDA b :
      IF ~IsOk(b) THEN b ELSE Ok([v |-> Hasher_with_bytes(b.val.v), p |-> b.val.p]))
\* Serializer for Script: Writer::put and Reader::get of the script bytes
Script_encode(s) ==
    IF Writer_usize_asserts(Len(s)) THEN Panic("assertion failed: size <= 0x7FFF")
    ELSE Ok(Writer_put(s))
Script_decode(bb, p) ==
    Bind(Reader_usize(bb, p), LAMBDA size :
      IF ~IsOk(size) THEN size ELSE Reader_get_bytes(bb, size.val.p, size.val.v))
\* Serializer for store::Attr
Attr_encode(a) == Ok(Writer_int(a.idx, 4) \o Writer_int(a.off, 4) \o Writer_int(a.len, 4))
Attr_decode(bb, p) ==
    Bind(Reader_uint(bb, p, 4), LAMBDA idx :
      IF ~IsOk(idx) THEN idx
      ELSE Bind(Reader_uint(bb, idx.val.p, 4), LAMBDA off :
        IF ~IsOk(off) THEN off
        ELSE Bind(Reader_uint(bb, off.val.p, 4), LAMBDA len :
          IF ~IsOk(len) THEN len
          ELSE Ok([v |-> [idx |-> idx.val.v, off |-> off.val.v, len |-> len.val.v],
                   p |-> len.val.p]))))
\* Serializer for Best
Best_encode(b) == Cat(Hasher_encode(b.id), Ok(Writer_int(b.height, 4)))
Best_decode(bb, p) ==
    Bind(Hasher_decode(bb, p), LAMBDA id :
      IF ~IsOk(id) THEN id
      ELSE Bind(Reader_uint(bb, id.val.p, 4), LAMBDA height :
        IF ~IsOk(height) THEN height
        ELSE Ok([v |-> [id |-> id.val.v, height |-> height.val.v], p |-> height.val.p])))
\* Serializer for TxAttr
TxAttr_encode(a) == Cat(Hasher_encode(a.blk), Ok(Writer_int(a.idx, 2)))
TxAttr_decode(bb, p) ==
    Bind(Hasher_decode(bb, p), LAMBDA b :
      IF ~IsOk(b) THEN b
      ELSE Bind(Reader_uint(bb, b.val.p, 2), LAMBDA idx :
        IF ~IsOk(idx) THEN idx
        ELSE Ok([v |-> [blk |-> b.val.v, idx |-> idx.val.v], p |-> idx.val.p])))
\* Serializer for CoinAttr: value, flags and height are written; cpk, tx and
\* idx are those of CoinAttr::default after decode
CoinAttr_encode(coin) ==
    Ok(Writer_int(coin.value, 8) \o Writer_int(coin.flags, 1) \o Writer_int(coin.height, 4))
CoinAttr_decode(bb, p) ==
    Bind(Reader_int(bb, p, 8), LAMBDA value :
      IF ~IsOk(value) THEN value
      ELSE Bind(Reader_u8(bb, value.val.p), LAMBDA flags :
        IF ~IsOk(flags) THEN flags
        ELSE Bind(Reader_uint(bb, flags.val.p, 4), LAMBDA height :
          IF ~IsOk(height) THEN height
          ELSE Ok([v |-> [cpk |-> Zero, tx |-> Zero, idx |-> 0, value |-> value.val.v,
                          flags |-> flags.val.v, height |-> height.val.v],
                   p |-> height.val.p]))))
\* Serializer for Header
Header_encode_bytes(h) ==
    Ok(Writer_int(h.ver, 4) \o Hasher_into_bytes(h.prev) \o Hasher_into_bytes(h.merkle)
       \o Writer_int(h.time, 4) \o Writer_int(h.bits, 4) \o Writer_int(h.nonce, 4))
Header_decode(bb, p) ==
    Bind(Reader_uint(bb, p, 4), LAMBDA ver :
      IF ~IsOk(ver) THEN ver
      ELSE Bind(Hasher_decode(bb, ver.val.p), LAMBDA prev :
        IF ~IsOk(prev) THEN prev
        ELSE Bind(Hasher_decode(bb, prev.val.p), LAMBDA merkle :
          IF ~IsOk(merkle) THEN merkle
          ELSE Bind(Reader_uint(bb, merkle.val.p, 4), LAMBDA time :
            IF ~IsOk(time) THEN time
            ELSE Bind(Reader_uint(bb, time.val.p, 4), LAMBDA bits :
              IF ~IsOk(bits) THEN bits
              ELSE Bind(Reader_uint(bb, bits.val.p, 4), LAMBDA nonce :
                IF ~IsOk(nonce) THEN nonce
                ELSE Ok([v |-> [ver |-> ver.val.v, prev |-> prev.val.v,
                                merkle |-> merkle.val.v, time |-> time.val.v,
                                bits |-> bits.val.v, nonce |-> nonce.val.v],
                         p |-> nonce.val.p])))))))
\* Serializer for BlkAttr
BlkAttr_encode(a) ==
    Cat(Header_encode_bytes(a.bhv),
        Cat(Ok(Writer_int(a.hhv, 4)), Cat(Attr_encode(a.blk), Attr_encode(a.rev))))
BlkAttr_decode(bb, p) ==
    Bind(Header_decode(bb, p), LAMBDA bhv :
      IF ~IsOk(bhv) THEN bhv
      ELSE Bind(Reader_uint(bb, bhv.val.p, 4), LAMBDA hhv :
        IF ~IsOk(hhv) THEN hhv
        ELSE Bind(Attr_decode(bb, hhv.val.p), LAMBDA b :
          IF ~IsOk(b) THEN b
          ELSE Bind(Attr_decode(bb, b.val.p), LAMBDA r :
            IF ~IsOk(r) THEN r
            ELSE Ok([v |-> [bhv |-> bhv.val.v, hhv |-> hhv.val.v,
                            blk |-> b.val.v, rev |-> r.val.v],
                     p |-> r.val.p])))))
\* Serializer for TxIn
TxIn_encode(inv) ==
    Cat(Ok(Hasher_into_bytes(inv.out) \o Writer_int(inv.idx, 2)),
        Cat(Script_encode(inv.script), Ok(Writer_int(inv.seq, 4))))
TxIn_decode(bb, p) ==
    Bind(Hasher_decode(bb, p), LAMBDA out :
      IF ~IsOk(out) THEN out
      ELSE Bind(Reader_uint(bb, out.val.p, 2), LAMBDA idx :
        IF ~IsOk(idx) THEN idx
        ELSE Bind(Script_decode(bb, idx.val.p), LAMBDA script :
          IF ~IsOk(script) THEN script
          ELSE Bind(Reader_uint(bb, script.val.p, 4), LAMBDA seq :
            IF ~IsOk(seq) THEN seq
            ELSE Ok([v |-> [out |-> out.val.v, idx |-> idx.val.v,
                            script |-> script.val.v, seq |-> seq.val.v],
                     p |-> seq.val.p])))))
\* Serializer for TxOut
TxOut_encode(outv) == Cat(Ok(Writer_int(outv.value, 8)), Script_encode(outv.script))
TxOut_decode(bb, p) ==
    Bind(Reader_int(bb, p, 8), LAMBDA value :
      IF ~IsOk(value) THEN value
      ELSE Bind(Script_decode(bb, value.val.p), LAMBDA script :
        IF ~IsOk(script) THEN script
        ELSE Ok([v |-> [value |-> value.val.v, script |-> script.val.v],
                 p |-> script.val.p])))
\* the encodings of the inputs lo..hi of a transaction, one after the other
RECURSIVE TxIns_encode(_, _, _)
TxIns_encode(ins, lo, hi) ==
    IF lo > hi THEN Ok(<<>>)
    ELSE IF lo = hi THEN TxIn_encode(ins[lo])
    ELSE Cat(TxIns_encode(ins, lo, (lo + hi) \div 2),
             TxIns_encode(ins, ((lo + hi) \div 2) + 1, hi))
\* the encodings of the outputs lo..hi of a transaction
RECURSIVE TxOuts_encode(_, _, _)
TxOuts_encode(outs, lo, hi) ==
    IF lo > hi THEN Ok(<<>>)
    ELSE IF lo = hi THEN TxOut_encode(outs[lo])
    ELSE Cat(TxOuts_encode(outs, lo, (lo + hi) \div 2),
             TxOuts_encode(outs, ((lo + hi) \div 2) + 1, hi))
\* Serializer for Tx, encode: the counts are written as u16
Tx_encode(tx) ==
    Cat(Ok(Writer_int(tx.ver, 4) \o Writer_int(Len(tx.ins) % 65536, 2)),
        Cat(TxIns_encode(tx.ins, 1, Len(tx.ins)),
            Cat(Ok(Writer_int(Len(tx.outs) % 65536, 2)),
                TxOuts_encode(tx.outs, 1, Len(tx.outs)))))
\* n inputs read one after the other from position p
RECURSIVE TxIns_decode(_, _, _)
TxIns_decode(bb, p, n) ==
    IF n = 0 THEN Ok([v |-> <<>>, p |-> p])
    ELSE IF n = 1
    THEN Bind(TxIn_decode(bb, p), LAMBDA iv :
           IF ~IsOk(iv) THEN iv ELSE Ok([v |-> <<iv.val.v>>, p |-> iv.val.p]))
    ELSE Bind(TxIns_decode(bb, p, n \div 2), LAMBDA l :
           IF ~IsOk(l) THEN l
           ELSE Bind(TxIns_decode(bb, l.val.p, n - (n \div 2)), LAMBDA r :
                  IF ~IsOk(r) THEN r ELSE Ok([v |-> l.val.v \o r.val.v, p |-> r.val.p])))
\* n outputs read one after the other from position p
RECURSIVE TxOuts_decode(_, _, _)
TxOuts_decode(bb, p, n) ==
    IF n = 0 THEN Ok([v |-> <<>>, p |-> p])
    ELSE IF n = 1
    THEN Bind(TxOut_decode(bb, p), LAMBDA iv :
           IF ~IsOk(iv) THEN iv ELSE Ok([v |-> <<iv.val.v>>, p |-> iv.val.p]))
    ELSE Bind(TxOuts_decode(bb, p, n \div 2), LAMBDA l :
           IF ~IsOk(l) THEN l
           ELSE Bind(TxOuts_decode(bb, l.val.p, n - (n \div 2)), LAMBDA r :
                  IF ~IsOk(r) THEN r ELSE Ok([v |-> l.val.v \o r.val.v, p |-> r.val.p])))
\* Serializer for Tx, decode
Tx_decode(bb, p) ==
    Bind(Reader_uint(bb, p, 4), LAMBDA ver :
      IF ~IsOk(ver) THEN ver
      ELSE Bind(Reader_uint(bb, ver.val.p, 2), LAMBDA nins :
        IF ~IsOk(nins) THEN nins
        ELSE Bind(TxIns_decode(bb, nins.val.p, nins.val.v), LAMBDA ins :
          IF ~IsOk(ins) THEN ins
          ELSE Bind(Reader_uint(bb, ins.val.p, 2), LAMBDA nouts :
            IF ~IsOk(nouts) THEN nouts
            ELSE Bind(TxOuts_decode(bb, nouts.val.p, nouts.val.v), LAMBDA outs :
              IF ~IsOk(outs) THEN outs
              ELSE Ok([v |-> [ver |-> ver.val.v, ins |-> ins.val.v, outs |-> outs.val.v],
                       p |-> outs.val.p]))))))
\* the encodings of the transactions lo..hi of a block
RECURSIVE Txs_encode(_, _, _)
Txs_encode(txs, lo, hi) ==
    IF lo > hi THEN Ok(<<>>)
    ELSE IF lo = hi THEN Tx_encode(txs[lo])
    ELSE Cat(Txs_encode(txs, lo, (lo + hi) \div 2),
             Txs_encode(txs, ((lo + hi) \div 2) + 1, hi))
\* Serializer for Block, encode: header, u16 count, transactions
Block_encode(b) ==
    Cat(Header_encode_bytes(b.header),
        Cat(Ok(Writer_int(Len(b.txs) % 65536, 2)), Txs_encode(b.txs, 1, Len(b.txs))))
\* n transactions read one after the other from position p
RECURSIVE Txs_decode(_, _, _)
Txs_decode(bb, p, n) ==
    IF n = 0 THEN Ok([v |-> <<>>, p |-> p])
    ELSE IF n = 1
    THEN Bind(Tx_decode(bb, p), LAMBDA tx :
           IF ~IsOk(tx) THEN tx ELSE Ok([v |-> <<tx.val.v>>, p |-> tx.val.p]))
    ELSE Bind(Txs_decode(bb, p, n \div 2), LAMBDA l :
           IF ~IsOk(l) THEN l
           ELSE Bind(Txs_decode(bb, l.val.p, n - (n \div 2)), LAMBDA r :
                  IF ~IsOk(r) THEN r ELSE Ok([v |-> l.val.v \o r.val.v, p |-> r.val.p])))
\* Serializer for Block, decode: Block::default with the header and the
\* transactions read
Block_decode_bytes(bb, p) ==
    Bind(Header_decode(bb, p), LAMBDA header :
      IF ~IsOk(header) THEN header
      ELSE Bind(Reader_uint(bb, header.val.p, 2), LAMBDA n :
        IF ~IsOk(n) THEN n
        ELSE Bind(Txs_decode(bb, n.val.p, n.val.v), LAMBDA txs :
          IF ~IsOk(txs) THEN txs
          ELSE Ok([v |-> NewBlock(header.val.v, txs.val.v), p |-> txs.val.p]))))
\* PartialEq for Block: header and txs
Block_eq(a, b) == a.header = b.header /\ a.txs = b.txs
\* the byte sequences of a sequence, one after the other: Writer::put_bytes
RECURSIVE Flatten(_)
Flatten(v) == IF Len(v) = 0 THEN <<>> ELSE v[1] \o Flatten(Tail(v))
\* Account::encode_sign: the account without signatures and private keys
Account_encode_sign_bytes(acc) ==
    IF ~Account_check(acc) THEN Err("InvalidAccount")
    ELSE IF Account_pubs_size(acc) # acc.num THEN Err("InvalidPublicKey")
    ELSE Ok(<<acc.num, acc.less, acc.arb, Account_pubs_size(acc)>>
            \o Flatten(Somes(acc.pubs)))
\* Script::encode_sign: CB and OUT scripts whole; of an IN script the type
\* and the account its execution under InEnv leaves on the stack
Script_encode_sign_bytes(s, overflow_checks) ==
    Bind(Script_get_type(s), LAMBDA typ :
      IF ~IsOk(typ) THEN typ
      ELSE IF typ.val \in {SCRIPT_TYPE_CB, SCRIPT_TYPE_OUT} THEN Ok(s)
      ELSE IF typ.val # SCRIPT_TYPE_IN THEN Err("ScriptFmtErr")
      ELSE Bind(Exector_exec(Exector_new, s,
                             [impl |-> "InEnv", msg |-> 0, err |-> "", val |-> FALSE],
                             overflow_checks), LAMBDA r :
             IF r.err # "" THEN [err |-> r.err, val |-> r.val]
             ELSE IF r.val > MAX_SCRIPT_OPS THEN Err("Script opts > MAX_SCRIPT_OPS")
             ELSE IF ~IsOk(Exector_check(r.self, 1)) THEN Exector_check(r.self, 1)
             ELSE Bind(Ele_try_into_Account(Exector_top(r.self, 1), overflow_checks),
                       LAMBDA acc :
                    IF ~IsOk(acc) THEN acc
                    ELSE Cat(Ok(<<OP_TYPE, SCRIPT_TYPE_IN>>),
                             Account_encode_sign_bytes(acc.val)))))
\* TxIn::encode_sign
TxIn_encode_sign_bytes(inv, overflow_checks) ==
    Cat(Ok(Hasher_into_bytes(inv.out) \o Writer_int(inv.idx, 2)),
        Cat(Script_encode_sign_bytes(inv.script, overflow_checks),
            Ok(Writer_int(inv.seq, 4))))
\* TxOut::encode_sign
TxOut_encode_sign_bytes(outv, overflow_checks) ==
    Cat(Ok(Writer_int(outv.value, 8)), Script_encode_sign_bytes(outv.script, overflow_checks))
\* the loops of Tx::encode_sign over the inputs and the outputs lo..hi
RECURSIVE TxIns_encode_sign(_, _, _, _)
TxIns_encode_sign(ins, lo, hi, overflow_checks) ==
    IF lo > hi THEN Ok(<<>>)
    ELSE IF lo = hi THEN TxIn_encode_sign_bytes(ins[lo], overflow_checks)
    ELSE Cat(TxIns_encode_sign(ins, lo, (lo + hi) \div 2, overflow_checks),
             TxIns_encode_sign(ins, ((lo + hi) \div 2) + 1, hi, overflow_checks))
RECURSIVE TxOuts_encode_sign(_, _, _, _)
TxOuts_encode_sign(outs, lo, hi, overflow_checks) ==
    IF lo > hi THEN Ok(<<>>)
    ELSE IF lo = hi THEN TxOut_encode_sign_bytes(outs[lo], overflow_checks)
    ELSE Cat(TxOuts_encode_sign(outs, lo, (lo + hi) \div 2, overflow_checks),
             TxOuts_encode_sign(outs, ((lo + hi) \div 2) + 1, hi, overflow_checks))
\* Tx::encode_sign
Tx_encode_sign_bytes(tx, overflow_checks) ==
    Cat(Ok(Writer_int(tx.ver, 4) \o Writer_int(Len(tx.ins) % 65536, 2)),
        Cat(TxIns_encode_sign(tx.ins, 1, Len(tx.ins), overflow_checks),
            Cat(Ok(Writer_int(Len(tx.outs) % 65536, 2)),
                TxOuts_encode_sign(tx.outs, 1, Len(tx.outs), overflow_checks))))
\* Tx::id
Tx_id_bytes(tx, overflow_checks) ==
    Bind(Tx_encode_sign_bytes(tx, overflow_checks), LAMBDA wb :
      IF ~IsOk(wb) THEN wb ELSE Ok(Hash(wb.val)))

(***************************************************************************)
(* The values encoded and decoded.  A script is named by its kind and its  *)
(* length, a list by its length and the element it repeats, so that the    *)
(* longest ones are spelled out only while they are encoded.               *)
(***************************************************************************)
\* numbers of the fields: the least, the greatest below 2^31 and two between
U32s == <<0, 1, 287454020, 2147483647>>
U16s == <<0, 1, 4660, 65535>>
I64s == <<0, 26505, 0 - 1, 2147483647>>
Digests == <<Zero, Hash(<<1>>), <<65535, 65535>>, Hash(<<2, 3>>)>>
\* the k-th of four values, counted round
Pick(v, k) == v[(k % 4) + 1]
\* the lengths of scripts: about the two sizes of the length prefix, at
\* MAX_SCRIPT_SIZE and about the greatest size Writer::usize writes
ScriptLens == {0, 1, 127, 128, 255, 256, 4096, 32767, 32768}
\* the scripts: n bytes that are no script, and the scripts of
\* test_tx_serializer
ScriptShapes ==
    {[kind |-> "bytes", len |-> n] : n \in ScriptLens}
    \cup {[kind |-> "in", len |-> 0], [kind |-> "out", len |-> 0]}
BuildScript(sd) ==
    IF sd.kind = "in" THEN Script_new_script_in(Account_new(NumKeys, 2, FALSE, TRUE, TRUE).val).val
    ELSE IF sd.kind = "out"
    THEN Script_new_script_out(Account_hash(Account_new(NumKeys, 2, FALSE, TRUE, TRUE).val).val).val
    ELSE [i \in 1..sd.len |-> (7 * i) % 256]
\* the k-th header, input and output of the shapes
BuildHeader(k) ==
    [ver |-> Pick(U32s, k), prev |-> Pick(Digests, k), merkle |-> Pick(Digests, k + 1),
     time |-> Pick(U32s, k + 1), bits |-> Pick(U32s, k + 2), nonce |-> Pick(U32s, k + 3)]
BuildTxIn(k, sd) ==
    [out |-> Pick(Digests, k), idx |-> Pick(U16s, k), script |-> BuildScript(sd),
     seq |-> Pick(U32s, k + 2)]
BuildTxOut(k, sd) == [value |-> Pick(I64s, k), script |-> BuildScript(sd)]
\* a transaction of nins inputs and nouts outputs, the i-th the (k + i)-th
BuildTx(k, nins, nouts, sd) ==
    [ver |-> Pick(U32s, k + 1),
     ins |-> [i \in 1..nins |-> BuildTxIn(k + i, sd)],
     outs |-> [i \in 1..nouts |-> BuildTxOut(k + i, sd)]]
\* a block of ntxs transactions of one input and one output each, as link
\* has stored it at height hhv
BuildBlock(k, ntxs, sd, hhv) ==
    [header |-> BuildHeader(k),
     txs |-> [i \in 1..ntxs |-> BuildTx(k + i, 1, 1, sd)],
     hhv |-> hhv,
     blk |-> [idx |-> 0, off |-> hhv, len |-> 1],
     rev |-> [idx |-> 0, off |-> 0, len |-> 0]]
\* the value a shape names
Build(typ, sh) ==
    CASE typ = "Script" -> BuildScript(sh)
      [] typ = "Header" -> BuildHeader(sh.k)
      [] typ = "TxIn" -> BuildTxIn(sh.k, sh.script)
      [] typ = "TxOut" -> BuildTxOut(sh.k, sh.script)
      [] typ = "Tx" -> BuildTx(sh.k, sh.nins, sh.nouts, sh.script)
      [] typ = "Block" -> BuildBlock(sh.k, sh.ntxs, sh.script, sh.hhv)
      [] typ = "Best" -> [id |-> Pick(Digests, sh.k), height |-> Pick(U32s, sh.k)]
      [] typ = "TxAttr" -> [blk |-> Pick(Digests, sh.k), idx |-> Pick(U16s, sh.k)]
      [] typ = "BlkAttr" ->
            [bhv |-> BuildHeader(sh.k), hhv |-> Pick(U32s, sh.k + 1),
             blk |-> [idx |-> Pick(U32s, sh.k), off |-> Pick(U32s, sh.k + 1),
                      len |-> Pick(U32s, sh.k + 2)],
             rev |-> [idx |-> Pick(U32s, sh.k + 3), off |-> Pick(U32s, sh.k),
                      len |-> Pick(U32s, sh.k + 1)]]
      [] OTHER -> [cpk |-> Pick(Digests, sh.k), tx |-> Pick(Digests, sh.k + 1),
                   idx |-> Pick(U16s, sh.k), value |-> Pick(I64s, sh.k),
                   flags |-> sh.k, height |-> Pick(U32s, sh.k)]
\* Serializer encode and decode of a type
Encode(typ, x) ==
    CASE typ = "Script" -> Script_encode(x)
      [] typ = "Header" -> Header_encode_bytes(x)
      [] typ = "TxIn" -> TxIn_encode(x)
      [] typ = "TxOut" -> TxOut_encode(x)
      [] typ = "Tx" -> Tx_encode(x)
      [] typ = "Block" -> Block_encode(x)
      [] typ = "Best" -> Best_encode(x)
      [] typ = "TxAttr" -> TxAttr_encode(x)
      [] typ = "BlkAttr" -> BlkAttr_encode(x)
      [] OTHER -> CoinAttr_encode(x)
Decode(typ, bb) ==
    CASE typ = "Script" -> Script_decode(bb, 0)
      [] typ = "Header" -> Header_decode(bb, 0)
      [] typ = "TxIn" -> TxIn_decode(bb, 0)
      [] typ = "TxOut" -> TxOut_decode(bb, 0)
      [] typ = "Tx" -> Tx_decode(bb, 0)
      [] typ = "Block" -> Block_decode_bytes(bb, 0)
      [] typ = "Best" -> Best_decode(bb, 0)
      [] typ = "TxAttr" -> TxAttr_decode(bb, 0)
      [] typ = "BlkAttr" -> BlkAttr_decode(bb, 0)
      [] OTHER -> CoinAttr_decode(bb, 0)
\* the comparison of a decoded value with the one encoded: PartialEq where
\* the type has it (for Block the header and the transactions), the fields
\* otherwise, of a coin the fields of its value record
Same(typ, d, x) ==
    CASE typ = "Block" -> Block_eq(d, x)
      [] typ = "CoinAttr" -> CoinAttr_value(d) = CoinAttr_value(x)
      [] OTHER -> d = x
\* two results of Tx::id agree
SameId(a, b) == a.err = b.err /\ (IsOk(a) => a.val = b.val)
\* the values encoded and decoded, by type
RoundTripShapes ==
    [t \in {"Script", "Header", "Best", "TxAttr", "BlkAttr", "CoinAttr", "TxIn", "TxOut",
            "Tx", "Block"} |->
        CASE t = "Script" -> {[shape |-> sd, overflow_checks |-> TRUE] : sd \in ScriptShapes}
          [] t \in {"TxIn", "TxOut"} ->
                {[shape |-> [k |-> k, script |-> sd], overflow_checks |-> TRUE] :
                    k \in 0..3, sd \in ScriptShapes}
          [] t = "Tx" ->
                {[shape |-> [k |-> k, nins |-> ni, nouts |-> no, script |-> sd],
                  overflow_checks |-> oc] :
                    k \in {0, 1}, ni \in 0..MaxList, no \in 0..MaxList, oc \in BOOLEAN,
                    sd \in {s \in ScriptShapes : s.len \in {0, 128, 32768}}}
                \cup {[shape |-> [k |-> n[1], nins |-> n[2], nouts |-> n[3],
                                  script |-> [kind |-> "bytes", len |-> 0]],
                       overflow_checks |-> TRUE] :
                        n \in {<<3, 65535, 1>>, <<3, 65536, 1>>, <<0, 1, 65536>>}}
          [] t = "Block" ->
                {[shape |-> [k |-> k, ntxs |-> n, script |-> sd, hhv |-> h],
                  overflow_checks |-> TRUE] :
                    k \in {0, 1}, n \in 0..MaxList, h \in {0, 7},
                    sd \in {s \in ScriptShapes : s.len = 0}}
                \cup {[shape |-> [k |-> 0, ntxs |-> 65536,
                                  script |-> [kind |-> "bytes", len |-> 0], hhv |-> 7],
                       overflow_checks |-> TRUE]}
          [] OTHER -> {[shape |-> [k |-> k], overflow_checks |-> TRUE] : k \in 0..3}]
\* the chain and the store take no part
InitScript ==
    /\ conf = Config_test
    /\ disk = [index |-> <<>>, blk |-> <<>>, rev |-> <<>>]
    /\ leveldb = [put |-> <<>>, del |-> {}]
    /\ cache = <<>>
    /\ blk = <<>>
    /\ rev = <<>>
    /\ pool = TxPool_default
    /\ last = [op |-> "new", err |-> ""]
    /\ rwlock = Unlocked
    /\ thr = [t \in Threads |-> Idle]
    /\ store = NoStore
    /\ files = <<>>
    /\ locs = <<>>
    /\ pubsub = NoPubSub
    /\ \E a \in InOutCalls \cup BytesCalls \cup VerifyCalls \cup ComputeCalls
                \cup CompactCalls :
          eval = [fn |-> "", arg |-> a, res |-> <<>>]
\* Exector::exec
ExecScript ==
    /\ eval.fn = ""
    /\ eval.arg.call \in {"inout", "bytes"}
    /\ eval' = [eval EXCEPT
                  !.fn = "exec",
                  !.res = Exector_exec(eval.arg.self, eval.arg.script, eval.arg.env,
                                       eval.arg.overflow_checks)]
    /\ UNCHANGED <<store, files, locs>>
    /\ UNCHANGED Chain0
\* Account::verify
VerifyAccount ==
    /\ eval.fn = ""
    /\ eval.arg.call = "verify"
    /\ eval' = [eval EXCEPT !.fn = "verify",
                            !.res = Account_verify(eval.arg.acc, eval.arg.msg)]
    /\ UNCHANGED <<store, files, locs>>
    /\ UNCHANGED Chain0
\* MerkleTree::compute
ComputeMerkle ==
    /\ eval.fn = ""
    /\ eval.arg.call = "compute"
    /\ eval' = [eval EXCEPT !.fn = "compute", !.res = MerkleTree_compute(eval.arg.ids)]
    /\ UNCHANGED <<store, files, locs>>
    /\ UNCHANGED Chain0
\* Hasher::try_from(bits) and Hasher::compact of the target
CompactBits ==
    /\ eval.fn = ""
    /\ eval.arg.call = "compact"
    /\ eval' = [eval EXCEPT
                  !.fn = "compact",
                  !.res = Bind(Hasher_try_from_u32(eval.arg.bits), LAMBDA h :
                             IF IsPanic(h) THEN h ELSE Ok(Hasher_compact(h.val)))]
    /\ UNCHANGED <<store, files, locs>>
    /\ UNCHANGED Chain0
\* test_tx_serializer: a value is encoded, the bytes are decoded and the two
\* values and, of transactions, their ids are compared
RoundTripOf(typ, x, overflow_checks) ==
    Bind(Encode(typ, x), LAMBDA e :
      IF ~IsOk(e) THEN e
      ELSE Bind(Decode(typ, e.val), LAMBDA d :
        IF ~IsOk(d) THEN d
        ELSE Ok([same |-> Same(typ, d.val.v, x),
                 rest |-> Len(e.val) - d.val.p,
                 len |-> Len(e.val),
                 head |-> SubSeq(e.val, 1, IF Len(e.val) < 2 THEN Len(e.val) ELSE 2),
                 sameid |-> IF typ = "Tx"
                            THEN SameId(Tx_id_bytes(d.val.v, overflow_checks),
                                        Tx_id_bytes(x, overflow_checks))
                            ELSE TRUE])))
RoundTrip ==
    /\ eval.fn = ""
    /\ eval.arg.call = "roundtrip"
    /\ eval' = [eval EXCEPT
                  !.fn = "roundtrip",
                  !.res = RoundTripOf(eval.arg.typ, Build(eval.arg.typ, eval.arg.shape),
                                      eval.arg.overflow_checks)]
    /\ UNCHANGED <<store, files, locs>>
    /\ UNCHANGED Chain0
NextScript == ExecScript \/ VerifyAccount \/ ComputeMerkle \/ CompactBits
\* the values of the serializers, the chain and the store taking no part
InitSerial ==
    /\ conf = Config_test
    /\ disk = [index |-> <<>>, blk |-> <<>>, rev |-> <<>>]
    /\ leveldb = [put |-> <<>>, del |-> {}]
    /\ cache = <<>>
    /\ blk = <<>>
    /\ rev = <<>>
    /\ pool = TxPool_default
    /\ last = [op |-> "new", err |-> ""]
    /\ rwlock = Unlocked
    /\ thr = [t \in Threads |-> Idle]
    /\ store = NoStore
    /\ files = <<>>
    /\ locs = <<>>
    /\ pubsub = NoPubSub
    /\ \E t \in DOMAIN RoundTripShapes : \E s \in RoundTripShapes[t] :
          eval = [fn |-> "",
                  arg |-> [call |-> "roundtrip", typ |-> t, shape |-> s.shape,
                           overflow_checks |-> s.overflow_checks],
                  res |-> <<>>]
NextSerial == RoundTrip
SpecSerial == InitSerial /\ [][NextSerial]_vars
SpecScript == InitScript /\ [][NextScript]_vars

\* C26: exec of new_script_in(account) followed by new_script_out(addr)
\* returns Ok exactly when the kinds the executor has seen are [IN, OUT],
\* the hash of the account is addr and verify_sign of the environment
\* answers true for the account; it then leaves the stack empty and returns
\* 8, the number Script::ops counts
C26_InOutExec ==
    (eval.fn = "exec" /\ eval.arg.call = "inout")
       => /\ IsOk(eval.res)
             <=> /\ eval.arg.self.typs \o <<SCRIPT_TYPE_IN, SCRIPT_TYPE_OUT>>
                       = <<SCRIPT_TYPE_IN, SCRIPT_TYPE_OUT>>
                 /\ IsOk(Account_hash(eval.arg.acc))
                 /\ Account_hash(eval.arg.acc).val = eval.arg.addr
                 /\ IsOk(ExectorEnv_verify_sign(eval.arg.env,
                                                EleData(Account_into_bytes(eval.arg.acc)),
                                                TRUE))
                 /\ ExectorEnv_verify_sign(eval.arg.env,
                                           EleData(Account_into_bytes(eval.arg.acc)),
                                           TRUE).val
          /\ IsOk(eval.res)
                => /\ eval.res.self.eles = <<>>
                   /\ eval.res.val = 8
                   /\ IsOk(Script_ops(eval.arg.script))
                   /\ Script_ops(eval.arg.script).val = 8
\* the scripts of an account of five keys, two of which signed the message
\* the environment verifies, were executed and exec returned Ok
C26_Witness ==
    /\ eval.fn = "exec" /\ eval.arg.call = "inout"
    /\ eval.arg.acc.num = NumKeys /\ eval.arg.env.impl = "TestEnv"
    /\ Len(Account_into_bytes(eval.arg.acc)) > 255
    /\ IsOk(eval.res)
\* exec has failed on the kinds alone: the executor had seen a kind before
C26_WitnessKinds ==
    /\ eval.fn = "exec" /\ eval.arg.call = "inout"
    /\ eval.arg.self.typs # <<>>
    /\ Account_hash(eval.arg.acc).val = eval.arg.addr
    /\ eval.arg.env = [impl |-> "const", msg |-> 0, err |-> "", val |-> TRUE]
    /\ eval.res.err = "ScriptExeErr"

\* C27: exec of any bytes returns Ok with the count of operations or an
\* error, and never panics: no script, a script of more than 4096 bytes,
\* more than 256 operations, an operation on a stack too short, an operand of
\* another type, bytes that are no account, an operand cut short and a byte
\* that is no operation give an error, and a script of 256 operations
\* returns Ok(256)
C27_ExecNeverAborts ==
    (eval.fn = "exec" /\ eval.arg.call = "bytes")
       => /\ ~IsPanic(eval.res)
          /\ IsOk(eval.res) => eval.res.val \in 1..MAX_SCRIPT_OPS
          /\ Len(eval.arg.script) = 0 => eval.res.err = "ScriptEmptyErr"
          /\ Len(eval.arg.script) > MAX_SCRIPT_SIZE => eval.res.err = "ScriptFmtErr"
          /\ eval.arg.script = Repeat(OP_TRUE, MAX_SCRIPT_OPS + 1)
                => eval.res.err = "ScriptFmtErr"
          /\ eval.arg.script = Repeat(OP_TRUE, MAX_SCRIPT_OPS)
                => (IsOk(eval.res) /\ eval.res.val = MAX_SCRIPT_OPS)
          /\ (Len(eval.arg.script) > 0
              /\ eval.arg.script[1] \in {OP_VERIFY, OP_NOT, OP_HASHER, OP_CHECKSIG, OP_EQUAL})
                => eval.res.err = "StackLenErr"
          /\ (Len(eval.arg.script) = 2 /\ eval.arg.script[1] \in {1, OP_TRUE}
              /\ eval.arg.script[2] \in {OP_VERIFY, OP_NOT, OP_HASHER})
                => IF eval.arg.script \in {<<OP_TRUE, OP_VERIFY>>, <<OP_TRUE, OP_NOT>>}
                   THEN IsOk(eval.res)
                   ELSE eval.res.err = "StackEleTypeErr"
          /\ (\E bb \in AccountBytes :
                 /\ eval.arg.script = Script_data(bb) \o <<OP_HASHER>>
                 /\ ~IsOk(Account_from_bytes(bb, eval.arg.overflow_checks)))
                => ~IsOk(eval.res)
          /\ Script_ops(eval.arg.script).err = "IoBufReadErr" => ~IsOk(eval.res)
          /\ eval.arg.script \in {<<OP_TYPE>>, <<OP_NUMBER_1>>, <<OP_DATA_1>>, <<OP_DATA_1, 1>>}
                => eval.res.err = "IoBufReadErr"
          /\ (Len(eval.arg.script) > 0 /\ eval.arg.script[1] = 80)
                => eval.res.err = "ScriptFmtErr"

\* Account::verify has returned Ok(true)
Accepted == IsOk(eval.res) /\ eval.res.val
\* slots of the present signatures of an account, in order
RECURSIVE PresentFrom(_, _)
PresentFrom(sigs, i) ==
    IF i > Len(sigs) THEN <<>>
    ELSE IF sigs[i] = None THEN PresentFrom(sigs, i + 1)
    ELSE <<i>> \o PresentFrom(sigs, i + 1)
\* strictly increasing choices of m slots out of n
Increasing(m, n) == {f \in [1..m -> 1..n] : \A a, b \in 1..m : a < b => f[a] < f[b]}
\* the public key in slot k verifies the signature in slot n over msg
SlotVerifies(acc, k, n, msg) ==
    /\ acc.pubs[k] # None /\ acc.sigs[n] # None
    /\ \E x \in KeyIds : acc.pubs[k] = PubKey_into_bytes(x) /\ acc.sigs[n] = PriKey_sign(x, msg)
\* (a): the arbiter key is enabled and verifies a present signature
ArbiterVerifies(acc, msg) ==
    /\ acc.arb # 255
    /\ \E n \in 1..Len(acc.sigs) : SlotVerifies(acc, acc.arb + 1, n, msg)
\* (b): less public keys each verify a signature of its own, keys and
\* signatures in positional order
ThresholdVerifies(acc, msg) ==
    \E ks \in Increasing(acc.less, Len(acc.pubs)), ss \in Increasing(acc.less, Len(acc.sigs)) :
       \A t \in 1..acc.less : SlotVerifies(acc, ks[t], ss[t], msg)
\* the first less present signatures are verified, in order, by public keys
\* in positional order
FirstSignaturesVerify(acc, msg) ==
    /\ Len(PresentFrom(acc.sigs, 1)) >= acc.less
    /\ \E ks \in Increasing(acc.less, Len(acc.pubs)) :
          \A t \in 1..acc.less : SlotVerifies(acc, ks[t], PresentFrom(acc.sigs, 1)[t], msg)
\* the two accounts of test_account_verify_true and test_account_verify_false,
\* of three keys
VerifyTests(acc, msg) ==
    /\ (acc.less = 2 /\ acc.arb = 255 /\ Len(acc.pubs) = 3
        /\ SlotVerifies(acc, 1, 1, msg) /\ SlotVerifies(acc, 2, 2, msg) /\ acc.sigs[3] = None)
          => Accepted
    /\ (acc.less = 2 /\ acc.arb = 255 /\ Len(acc.pubs) = 3
        /\ SlotVerifies(acc, 1, 1, msg) /\ acc.sigs[3] = None
        /\ \E x \in KeyIds, o \in Msgs \ {msg} : acc.sigs[2] = PriKey_sign(x, o))
          => ~Accepted
\* C28 as stated: verify accepts exactly when the arbiter key is enabled and
\* verifies a present signature, or less public keys each verify a present
\* signature of its own in positional order
C28_ArbiterOrThreshold ==
    eval.fn = "verify"
       => /\ Accepted <=> (\/ ArbiterVerifies(eval.arg.acc, eval.arg.msg)
                           \/ ThresholdVerifies(eval.arg.acc, eval.arg.msg))
          /\ VerifyTests(eval.arg.acc, eval.arg.msg)
\* what Account::verify accepts: with the arbiter key enabled, the accounts
\* of which the arbiter key verifies a present signature, and no other;
\* without, the accounts whose first less present signatures are verified,
\* in order, by public keys at increasing positions
VerifyAccepts ==
    eval.fn = "verify"
       => /\ Accepted <=> IF eval.arg.acc.arb # 255
                          THEN ArbiterVerifies(eval.arg.acc, eval.arg.msg)
                          ELSE FirstSignaturesVerify(eval.arg.acc, eval.arg.msg)
          /\ VerifyTests(eval.arg.acc, eval.arg.msg)
\* verify has turned down an account with an arbiter that did not sign,
\* though two keys of its threshold of two did
VerifyArbiterOnly ==
    /\ eval.fn = "verify" /\ ~Accepted
    /\ eval.arg.acc.arb # 255 /\ eval.arg.acc.less = 2
    /\ ThresholdVerifies(eval.arg.acc, eval.arg.msg)
\* verify has turned down an account without arbiter of which two keys
\* signed, a signature over another message standing between theirs
VerifyBlocked ==
    /\ eval.fn = "verify" /\ ~Accepted
    /\ eval.arg.acc.arb = 255 /\ eval.arg.acc.less = 2
    /\ ThresholdVerifies(eval.arg.acc, eval.arg.msg)
\* verify has accepted on the signature of the arbiter alone
VerifyArbiterAlone ==
    /\ eval.fn = "verify" /\ Accepted
    /\ eval.arg.acc.arb # 255 /\ eval.arg.acc.less = 2
    /\ Len(PresentFrom(eval.arg.acc.sigs, 1)) = 1

\* the root of a row of hashes: adjacent hashes are hashed in pairs, the
\* last one of a row of odd length with itself, row by row until one is left
RECURSIVE MerkleRows(_)
MerkleRows(row) ==
    IF Len(row) = 1 THEN row[1]
    ELSE MerkleRows([i \in 1..((Len(row) + 1) \div 2) |->
                        Hash(row[2 * i - 1]
                             \o row[IF 2 * i <= Len(row) THEN 2 * i ELSE 2 * i - 1])])
\* C29: compute of a list of ids returns the root hashed row by row, the
\* one id of a list of one, and an error for the empty list
C29_MerkleRoot ==
    eval.fn = "compute"
       => IF Len(eval.arg.ids) = 0
          THEN ~IsOk(eval.res) /\ ~IsPanic(eval.res)
          ELSE /\ IsOk(eval.res) /\ eval.res.val = MerkleRows(eval.arg.ids)
               /\ Len(eval.arg.ids) = 1 => eval.res.val = eval.arg.ids[1]
\* compute of a list of ids that is not empty returns the root hashed row by
\* row
ComputeRows ==
    (eval.fn = "compute" /\ Len(eval.arg.ids) > 0)
       => /\ IsOk(eval.res) /\ eval.res.val = MerkleRows(eval.arg.ids)
          /\ Len(eval.arg.ids) = 1 => eval.res.val = eval.arg.ids[1]
\* link accepts a block only with the root of its transaction ids in the
\* header: every block of the chain holds it
CommittedMerkle ==
    IsOk(best(Self)) => \A h \in 0..TipHeight(Self) :
       Bind(BlockAtHeight(Self, h), LAMBDA b :
          /\ Len(b.txs) > 0
          /\ b.header.merkle = MerkleRows([i \in 1..Len(b.txs) |-> Tx_id(b.txs[i])]))

\* exponent and mantissa bytes of bits
Exponent(b) == b \div 16777216
Mantissa(b) == b % 16777216
\* the target of the bits fits in 256 bits
Fits256(b) == IsOk(Hasher_try_from_u32(b))
\* the mantissa bytes a target of fewer than three bytes has no room for
ShiftedOut(b) ==
    IF Exponent(b) >= 3 THEN 0 ELSE Mantissa(b) % (2 ^ (8 * (3 - Exponent(b))))
\* C30: for every compact value whose mantissa has a non-zero top byte and
\* bit 23 clear and whose target fits in 256 bits, converting the value to
\* its target and the target back to compact form gives the value again.
C30_CompactRoundTrip ==
    (/\ eval.fn = "compact"
     /\ Mantissa(eval.arg.bits) \div 65536 \in 1..127
     /\ Fits256(eval.arg.bits))
        => IsOk(eval.res) /\ eval.res.val = eval.arg.bits
\* C30, amended: the round trip holds for the compact values whose mantissa
\* has bit 23 clear and is at least 0x008000 (a non-zero top byte, or a zero
\* top byte and bit 15 set), whose target fits in 256 bits, and whose exponent
\* leaves no non-zero mantissa byte out of the target (exponent at least 3, or
\* the low 3 - exponent bytes of the mantissa zero).
C30_CanonicalRoundTrip ==
    (/\ eval.fn = "compact"
     /\ Mantissa(eval.arg.bits) \in 32768..8388607
     /\ Fits256(eval.arg.bits)
     /\ ShiftedOut(eval.arg.bits) = 0)
        => IsOk(eval.res) /\ eval.res.val = eval.arg.bits
\* one of a value of test_compact, a value of a zero top byte, a value of two
\* target bytes and a value of the largest exponent has made the round trip
C30_Witness ==
    /\ eval.fn = "compact"
    /\ eval.arg.bits \in {386771105, 486604799, Bits(2, 65536), Bits(32, 8388607)}
    /\ IsOk(eval.res) /\ eval.res.val = eval.arg.bits
\* a mantissa byte that the target has no room for is lost
C30_LostByte ==
    /\ eval.fn = "compact"
    /\ Exponent(eval.arg.bits) = 2
    /\ Mantissa(eval.arg.bits) = 65536 + 52 * 256 + 86
    /\ IsOk(eval.res) /\ eval.res.val = Bits(2, 65536 + 52 * 256)
\* a target of more than 256 bits
C30_TooWide ==
    eval.fn = "compact" /\ IsPanic(eval.res)

\* the longest script and the longest list of the value a shape names
ShapeScriptLen(typ, sh) ==
    CASE typ = "Script" -> sh.len
      [] typ \in {"TxIn", "TxOut", "Tx", "Block"} -> sh.script.len
      [] OTHER -> 0
ShapeListLen(typ, sh) ==
    CASE typ = "Tx" -> IF sh.nins > sh.nouts THEN sh.nins ELSE sh.nouts
      [] typ = "Block" -> sh.ntxs
      [] OTHER -> 0
\* the length prefix Writer::usize is said to write before n script bytes
PrefixOf(n) == IF n <= 127 THEN <<n>> ELSE <<128 + (n \div 256), n % 256>>
\* the script bytes follow a prefix of the said form
PrefixAsSaid(typ, sh, r) ==
    (typ = "Script" /\ sh.kind = "bytes") =>
        /\ r.len = sh.len + Len(PrefixOf(sh.len))
        /\ r.head = SubSeq(PrefixOf(sh.len) \o <<7, 14>>, 1, IF r.len < 2 THEN r.len ELSE 2)
\* the value decoded is the value encoded, all bytes are read and the id is
\* the same
RoundTripHolds ==
    /\ IsOk(eval.res)
    /\ eval.res.val.same /\ eval.res.val.rest = 0 /\ eval.res.val.sameid
    /\ PrefixAsSaid(eval.arg.typ, eval.arg.shape, eval.res.val)
\* C31: decoding the encoding of a Header, Block, Tx, TxIn, TxOut, Script,
\* coin value record, BlkAttr, TxAttr or Best whose scripts are of at most
\* 32767 bytes gives the value again, the script length prefix is one byte
\* for 0..127 and two bytes (high bit set, 15 bits big-endian) for
\* 128..32767, and a decoded transaction has the id of the original.
C31_RoundTrip ==
    (/\ eval.fn = "roundtrip"
     /\ ShapeScriptLen(eval.arg.typ, eval.arg.shape) <= 32767)
        => RoundTripHolds
\* the round trip of the values whose lists are of at most 65535 elements
C31_RoundTripU16 ==
    (/\ eval.fn = "roundtrip"
     /\ ShapeScriptLen(eval.arg.typ, eval.arg.shape) <= 32767
     /\ ShapeListLen(eval.arg.typ, eval.arg.shape) <= 65535)
        => RoundTripHolds
\* a transaction of the scripts of test_tx_serializer, a script of 32767
\* bytes and a transaction of 65535 inputs have made the round trip
C31_Witness ==
    /\ eval.fn = "roundtrip"
    /\ \/ eval.arg.typ = "Tx" /\ eval.arg.shape.script.kind = "in" /\ eval.arg.shape.nins = 2
       \/ eval.arg.typ = "Script" /\ eval.arg.shape.len = 32767
       \/ eval.arg.typ = "Tx" /\ eval.arg.shape.nins = 65535
    /\ RoundTripHolds
\* a script of 32768 bytes is not encoded
C31_ScriptTooLong ==
    /\ eval.fn = "roundtrip"
    /\ ShapeScriptLen(eval.arg.typ, eval.arg.shape) = 32768
    /\ IsPanic(eval.res)
\* a transaction of 65536 inputs is not the one decoded
C31_Truncated ==
    /\ eval.fn = "roundtrip"
    /\ eval.arg.typ = "Tx" /\ eval.arg.shape.nins = 65536
    /\ ~RoundTripHolds

(***************************************************************************)
(* PubSub.  Every section of code run under the lock of InnerPubSub is one *)
(* step; a job of the thread pool is at "queued" until a thread takes it,  *)
(* at "lock" until it holds the mutex of the callback, at "loop" before it *)
(* looks into the backlog, at "popped" with a message taken, at "call"     *)
(* while the callback runs, at "exit" when it found nothing and at "done"  *)
(* once it has reset the running flag.  A message is the number of the     *)
(* notify call that sent it.                                               *)
(***************************************************************************)
Channels == {"channel1", "channel2"}
\* exception: None
NoId == 0 - 1
\* HashMap::insert and HashMap::remove
MapPut(f, k, v) == [x \in DOMAIN f \cup {k} |-> IF x = k THEN v ELSE f[x]]
MapDel(f, k) == [x \in DOMAIN f \ {k} |-> f[x]]
\* the SubData of internal_subscribe
SubData_new(has_func) == [running |-> FALSE, backlog |-> <<>>, func |-> has_func]
\* PubSub::internal_subscribe; the Subscription returned is kept in subs,
\* inside a SubActivator when it was made by lazy_subscribe
PubSub_internal_subscribe(ps, channel, has_func) ==
    LET chans == IF channel \in DOMAIN ps.channels THEN ps.channels
                 ELSE MapPut(ps.channels, channel, <<>>)
        id == ps.next_id
    IN  [ps EXCEPT
           !.channels = MapPut(chans, channel, MapPut(chans[channel], id, SubData_new(has_func))),
           !.next_id = id + 1,
           !.subs = @ \cup {[id |-> id, channel_id |-> channel, activator |-> ~has_func]},
           !.delivered = MapPut(@, id, <<>>)]
\* PubSub::subscribe and PubSub::lazy_subscribe
PubSub_subscribe(ps, channel) == PubSub_internal_subscribe(ps, channel, TRUE)
PubSub_lazy_subscribe(ps, channel) == PubSub_internal_subscribe(ps, channel, FALSE)
\* RAIIBool::set on the running flag of a subscription that is still there
RAIIBool_set(ps, channel, id, value) ==
    IF channel \in DOMAIN ps.channels /\ id \in DOMAIN ps.channels[channel]
    THEN [ps EXCEPT !.channels[channel][id].running = value]
    ELSE ps
\* PubSub::schedule_worker: nothing when a worker is running; a job for the
\* pool when there is a callback; the flag reset when there is none
PubSub_schedule_worker(ps, channel, id) ==
    IF ps.channels[channel][id].running THEN ps
    ELSE IF ps.channels[channel][id].func
    THEN [RAIIBool_set(ps, channel, id, TRUE) EXCEPT
            !.jobs = Append(@, [channel |-> channel, id |-> id, pc |-> "queued", msg |-> 0])]
    ELSE RAIIBool_set(RAIIBool_set(ps, channel, id, TRUE), channel, id, FALSE)
\* PubSub::activate
PubSub_activate(ps, channel, id) ==
    PubSub_schedule_worker([ps EXCEPT !.channels[channel][id].func = TRUE], channel, id)
\* PubSub::num_channels
PubSub_num_channels(ps) == Cardinality(DOMAIN ps.channels)
\* PubSub::unregister, called by the drop of a Subscription
PubSub_unregister(ps, sub) ==
    LET sub_list == MapDel(ps.channels[sub.channel_id], sub.id)
    IN  [ps EXCEPT
           !.channels = IF DOMAIN sub_list = {} THEN MapDel(@, sub.channel_id)
                        ELSE MapPut(@, sub.channel_id, sub_list)]
\* the loop of notify_exception over the subscriptions ids of the channel
RECURSIVE notify_loop(_, _, _, _, _)
notify_loop(ps, channel, msg, exception, ids) ==
    IF ids = {} THEN ps
    ELSE LET id == CHOOSE i \in ids : \A j \in ids : i <= j
         IN  IF id = exception THEN notify_loop(ps, channel, msg, exception, ids \ {id})
             ELSE notify_loop(
                    PubSub_schedule_worker(
                        [ps EXCEPT !.channels[channel][id].backlog = Append(@, msg)],
                        channel, id),
                    channel, msg, exception, ids \ {id})
\* PubSub::notify_exception
PubSub_notify_exception(ps, channel, msg, exception) ==
    IF channel \in DOMAIN ps.channels
    THEN notify_loop(ps, channel, msg, exception, DOMAIN ps.channels[channel])
    ELSE ps
\* PubSub::notify
PubSub_notify(ps, channel, msg) == PubSub_notify_exception(ps, channel, msg, NoId)
\* VecDeque::pop_back and VecDeque::pop_front: the message taken and the
\* backlog left
VecDeque_pop_back(q) == [msg |-> q[Len(q)], backlog |-> SubSeq(q, 1, Len(q) - 1)]
VecDeque_pop_front(q) == [msg |-> Head(q), backlog |-> Tail(q)]
\* the jobs a thread of the pool is busy with
Busy(ps) == {j \in 1..Len(ps.jobs) : ps.jobs[j].pc # "queued"}
\* a job holds the mutex of the callback of subscription id
FuncLocked(ps, id) ==
    \E j \in 1..Len(ps.jobs) :
        ps.jobs[j].id = id /\ ps.jobs[j].pc \in {"loop", "popped", "call", "exit", "done"}
\* the jobs without the j-th
JobsWithout(ps, j) == SubSeq(ps.jobs, 1, j - 1) \o SubSeq(ps.jobs, j + 1, Len(ps.jobs))
\* the subscriptions a notify on the channel pushes to
Targets(ps, channel, exception) ==
    IF channel \in DOMAIN ps.channels THEN DOMAIN ps.channels[channel] \ {exception} ELSE {}
Others == <<leveldb, cache, blk, rev, pool, conf, disk, last, rwlock, thr,
            store, files, locs, eval>>

\* PubSub::new
InitPubSub ==
    /\ conf = Config_test
    /\ disk = [index |-> <<>>, blk |-> <<>>, rev |-> <<>>]
    /\ leveldb = [put |-> <<>>, del |-> {}]
    /\ cache = <<>>
    /\ blk = <<>>
    /\ rev = <<>>
    /\ pool = TxPool_default
    /\ last = [op |-> "new", err |-> ""]
    /\ rwlock = Unlocked
    /\ thr = [t \in Threads |-> Idle]
    /\ store = NoStore
    /\ files = <<>>
    /\ locs = <<>>
    /\ eval = NoCall
    /\ pubsub = NoPubSub
\* PubSub::subscribe
Subscribe ==
    /\ pubsub.next_id < MaxSubs
    /\ \E channel \in Channels : pubsub' = PubSub_subscribe(pubsub, channel)
    /\ UNCHANGED Others
\* PubSub::lazy_subscribe
LazySubscribe ==
    /\ pubsub.next_id < MaxSubs
    /\ \E channel \in Channels : pubsub' = PubSub_lazy_subscribe(pubsub, channel)
    /\ UNCHANGED Others
\* SubActivator::activate
Activate ==
    /\ \E sub \in pubsub.subs :
          /\ sub.activator
          /\ pubsub' = [PubSub_activate(pubsub, sub.channel_id, sub.id) EXCEPT
                          !.subs = (@ \ {sub}) \cup {[sub EXCEPT !.activator = FALSE]}]
    /\ UNCHANGED Others
\* PubSub::notify
Notify ==
    /\ Len(pubsub.sent) < MaxNotify
    /\ \E channel \in Channels :
          pubsub' = [PubSub_notify(pubsub, channel, Len(pubsub.sent) + 1) EXCEPT
                       !.sent = Append(@, [channel |-> channel,
                                           to |-> Targets(pubsub, channel, NoId)])]
    /\ UNCHANGED Others
\* Subscription::notify_others
NotifyOthers ==
    /\ Len(pubsub.sent) < MaxNotify
    /\ \E sub \in pubsub.subs :
          /\ ~sub.activator
          /\ pubsub' = [PubSub_notify_exception(pubsub, sub.channel_id,
                                                Len(pubsub.sent) + 1, sub.id) EXCEPT
                          !.sent = Append(@, [channel |-> sub.channel_id,
                                              to |-> Targets(pubsub, sub.channel_id, sub.id)])]
    /\ UNCHANGED Others
\* Subscription::cancel, or the drop of a Subscription or of a SubActivator
Cancel ==
    /\ \E sub \in pubsub.subs :
          pubsub' = [PubSub_unregister(pubsub, sub) EXCEPT
                       !.subs = @ \ {sub}, !.cancelled = @ \cup {sub.id}]
    /\ UNCHANGED Others
\* a thread of the pool takes the job: new_guard
WorkerRun(j) ==
    /\ pubsub.jobs[j].pc = "queued"
    /\ Cardinality(Busy(pubsub)) < NumWorkers
    /\ pubsub' = [pubsub EXCEPT !.jobs[j].pc = "lock"]
    /\ UNCHANGED Others
\* func.lock()
WorkerLock(j) ==
    /\ pubsub.jobs[j].pc = "lock"
    /\ ~FuncLocked(pubsub, pubsub.jobs[j].id)
    /\ pubsub' = [pubsub EXCEPT !.jobs[j].pc = "loop"]
    /\ UNCHANGED Others
\* the section of the loop under the lock: the front of the backlog, if the
\* channel and the subscription are there and the backlog is not empty
WorkerPop(j) ==
    /\ pubsub.jobs[j].pc = "loop"
    /\ LET job == pubsub.jobs[j]
       IN  IF /\ job.channel \in DOMAIN pubsub.channels
              /\ job.id \in DOMAIN pubsub.channels[job.channel]
              /\ pubsub.channels[job.channel][job.id].backlog # <<>>
           THEN LET popped == VecDeque_pop_front(pubsub.channels[job.channel][job.id].backlog)
                IN  pubsub' = [pubsub EXCEPT
                                 !.channels[job.channel][job.id].backlog = popped.backlog,
                                 !.jobs[j].pc = "popped",
                                 !.jobs[j].msg = popped.msg]
           ELSE pubsub' = [pubsub EXCEPT !.jobs[j].pc = "exit"]
    /\ UNCHANGED Others
\* func(msg) begins
WorkerCall(j) ==
    /\ pubsub.jobs[j].pc = "popped"
    /\ pubsub' = [pubsub EXCEPT
                    !.jobs[j].pc = "call",
                    !.delivered[pubsub.jobs[j].id] = Append(@, pubsub.jobs[j].msg)]
    /\ UNCHANGED Others
\* func(msg) returns
WorkerReturn(j) ==
    /\ pubsub.jobs[j].pc = "call"
    /\ pubsub' = [pubsub EXCEPT !.jobs[j].pc = "loop", !.jobs[j].msg = 0]
    /\ UNCHANGED Others
\* finish_guard.done(): the drop of the guard resets the running flag
WorkerDone(j) ==
    /\ pubsub.jobs[j].pc = "exit"
    /\ pubsub' = [RAIIBool_set(pubsub, pubsub.jobs[j].channel, pubsub.jobs[j].id, FALSE)
                    EXCEPT !.jobs[j].pc = "done"]
    /\ UNCHANGED Others
\* the closure returns: the mutex of the callback is released
WorkerEnd(j) ==
    /\ pubsub.jobs[j].pc = "done"
    /\ pubsub' = [pubsub EXCEPT !.jobs = JobsWithout(pubsub, j)]
    /\ UNCHANGED Others
\* a step of a job of the pool
Worker ==
    \E j \in 1..Len(pubsub.jobs) :
        \/ WorkerRun(j) \/ WorkerLock(j) \/ WorkerPop(j) \/ WorkerCall(j)
        \/ WorkerReturn(j) \/ WorkerDone(j) \/ WorkerEnd(j)
NextPubSub ==
    \/ Subscribe \/ LazySubscribe \/ Activate \/ Notify \/ NotifyOthers \/ Cancel
    \/ Worker
SpecPubSub == InitPubSub /\ [][NextPubSub]_vars
\* the threads of the pool run the jobs they have, and callbacks return
SpecPubSubFair == SpecPubSub /\ WF_vars(Worker)

\* the ids of subscriptions and the numbers of messages
SubIds == 0..(MaxSubs - 1)
MsgIds == 1..MaxNotify
\* the elements of a sequence
Range(q) == {q[x] : x \in DOMAIN q}
\* subscription i is registered with a callback
HasCallback(i) ==
    \E channel \in DOMAIN pubsub.channels :
        i \in DOMAIN pubsub.channels[channel] /\ pubsub.channels[channel][i].func
\* message n was sent to subscription i, which has a callback and is not
\* cancelled, and the callback has not been called with it
Owed(n, i) ==
    /\ n <= Len(pubsub.sent)
    /\ i \in pubsub.sent[n].to
    /\ i \notin pubsub.cancelled
    /\ HasCallback(i)
    /\ n \notin Range(pubsub.delivered[i])
\* a callback is called with a message at most once, and only with the
\* messages sent to its subscription
AtMostOnce ==
    \A i \in DOMAIN pubsub.delivered :
        /\ \A a, b \in DOMAIN pubsub.delivered[i] :
              a # b => pubsub.delivered[i][a] # pubsub.delivered[i][b]
        /\ \A a \in DOMAIN pubsub.delivered[i] : i \in pubsub.sent[pubsub.delivered[i][a]].to
\* C32: every message passed to notify is eventually delivered, exactly
\* once, to the callback of each subscription registered on the channel at
\* that moment that has or later gets a callback and is not cancelled,
\* whether or not notify is called again.
C32_Delivery ==
    /\ []AtMostOnce
    /\ \A n \in MsgIds : \A i \in SubIds : Owed(n, i) ~> ~Owed(n, i)
\* a message lies in the backlog of a subscription with a callback while no
\* job of the pool is left to take it
C32_Stuck ==
    /\ pubsub.jobs = <<>>
    /\ \E n \in MsgIds : \E i \in SubIds : Owed(n, i)
\* the subscriptions of the channels are the live ones
LiveChannels ==
    /\ DOMAIN pubsub.channels = {sub.channel_id : sub \in pubsub.subs}
    /\ \A channel \in DOMAIN pubsub.channels :
          DOMAIN pubsub.channels[channel]
             = {sub.id : sub \in {s \in pubsub.subs : s.channel_id = channel}}
    /\ pubsub.subs = {} => PubSub_num_channels(pubsub) = 0
\* C33: once a subscription is cancelled no call of its callback begins and
\* its backlog is gone; a channel exists exactly while it has a live
\* subscription, so with all subscriptions cancelled num_channels() is 0.
C33_Cancelled ==
    /\ []LiveChannels
    /\ [][\A i \in pubsub.cancelled : pubsub'.delivered[i] = pubsub.delivered[i]]_vars
\* the callback of a cancelled subscription has been called with a message
\* that its job had taken before
C33_LateCall ==
    \E j \in 1..Len(pubsub.jobs) :
        pubsub.jobs[j].pc = "call" /\ pubsub.jobs[j].id \in pubsub.cancelled
\* the jobs of subscription i that are in the loop of the worker
InLoop(i) ==
    {j \in 1..Len(pubsub.jobs) :
        pubsub.jobs[j].id = i /\ pubsub.jobs[j].pc \in {"loop", "popped", "call", "exit"}}
\* C38: for each subscription at most one worker is in its loop, so calls
\* of the callback never overlap, and the callback is called with the
\* messages in the order in which notify enqueued them.
C38_InOrder ==
    \A i \in DOMAIN pubsub.delivered :
        /\ Cardinality(InLoop(i)) <= 1
        /\ \A a, b \in DOMAIN pubsub.delivered[i] :
              a < b => pubsub.delivered[i][a] < pubsub.delivered[i][b]
\* the callback of a subscription runs with the second of two messages
C38_Witness ==
    \E i \in DOMAIN pubsub.delivered :
        /\ pubsub.delivered[i] = <<1, 2>>
        /\ \E j \in 1..Len(pubsub.jobs) :
              pubsub.jobs[j].id = i /\ pubsub.jobs[j].pc = "call" /\ pubsub.jobs[j].msg = 2
\* a second job of a subscription waits for the mutex of the callback while
\* the first has not ended
TwoJobs ==
    \E j, k \in 1..Len(pubsub.jobs) :
        /\ j # k /\ pubsub.jobs[j].id = pubsub.jobs[k].id
        /\ pubsub.jobs[j].pc = "done" /\ pubsub.jobs[k].pc = "lock"

(***************************************************************************)
(* A Store that is pushed records of every length, kept or not by the      *)
(* caller, and made again on its directory.                                *)
(***************************************************************************)
\* Store::push of up to MaxFile + 1 bytes, the bytes of the n-th push being n
PushAny ==
    /\ Len(locs) < MaxPush
    /\ \E k \in 0..(MaxFile + 1) :
          Bind(Store_push_in(store, files, [i \in 1..k |-> Len(locs)]), LAMBDA r :
            /\ store' = r.st
            /\ files' = r.fs
            /\ locs' = IF IsOk(r)
                       THEN Append(locs, [attr |-> r.val, bytes |-> [i \in 1..k |-> Len(locs)]])
                       ELSE locs
            /\ eval' = [fn |-> "push", arg |-> [i \in 1..k |-> Len(locs)],
                        res |-> [err |-> r.err, val |-> r.val]])
    /\ UNCHANGED Chain0
NextPush == PushAny \/ StoreNew
SpecPush == InitStore /\ [][NextPush]_vars

\* the segment file of a number
Segment(idx) == store_file_path(idx, store.ext)
\* a step of Store::push
PushStep == eval'.fn = "push" /\ (eval' # eval \/ files' # files)
\* what push did in the step: nothing but an error for no bytes and for
\* more bytes than a file holds; else the bytes are at the end of the file
\* written to, or at the start of the next file when they do not fit, and
\* the Attr returned is the number of that file, its length before and the
\* length of the bytes
PushAsSaid ==
    IF Len(eval'.arg) = 0 \/ Len(eval'.arg) > store.max
    THEN ~IsOk(eval'.res) /\ files' = files /\ store' = store /\ locs' = locs
    ELSE LET roll == FileLen(files, Segment(store.idx)) + Len(eval'.arg) > store.max
             idx == IF roll THEN store.idx + 1 ELSE store.idx
         IN  /\ IsOk(eval'.res)
             /\ eval'.res.val = [idx |-> idx, off |-> FileLen(files, Segment(idx)),
                                 len |-> Len(eval'.arg)]
             /\ roll => eval'.res.val.off = 0
             /\ store'.idx = idx
             /\ DOMAIN files' = DOMAIN files \cup {Segment(idx)}
             /\ files'[Segment(idx)]
                   = (IF Segment(idx) \in DOMAIN files THEN files[Segment(idx)] ELSE <<>>)
                     \o eval'.arg
             /\ \A name \in DOMAIN files \ {Segment(idx)} : files'[name] = files[name]
\* no segment file is longer than max
SegmentsFit == \A name \in DOMAIN files : Len(files[name]) <= store.max
\* every record lies whole in the file of its Attr
RecordsWhole ==
    \A n \in DOMAIN locs :
        /\ locs[n].attr.off + locs[n].attr.len <= FileLen(files, Segment(locs[n].attr.idx))
        /\ SubSeq(files[Segment(locs[n].attr.idx)], locs[n].attr.off + 1,
                  locs[n].attr.off + locs[n].attr.len) = locs[n].bytes
\* no two of the locations returned share a byte
NoOverlap ==
    \A m, n \in DOMAIN locs :
        (m < n /\ locs[m].attr.idx = locs[n].attr.idx)
            => \/ locs[m].attr.off + locs[m].attr.len <= locs[n].attr.off
               \/ locs[n].attr.off + locs[n].attr.len <= locs[m].attr.off
\* C34: push appends at the end of the file written to and returns its
\* number, its length before and the length of the bytes; it goes to a new
\* file of the next number, at offset 0, exactly when the size and the
\* length together exceed max, and fails without writing for more than max
\* bytes and for none; so no segment exceeds max, no record spans two files
\* and no two locations overlap, also after the store was made again on the
\* directory and whether or not the caller kept the locations.
C34_PushLocations ==
    /\ [](SegmentsFit /\ RecordsWhole /\ NoOverlap)
    /\ [][PushStep => PushAsSaid]_vars
\* a store made again on a directory whose last file is number 1 has gone to
\* file 2 for a record that did not fit
C34_Witness ==
    /\ eval.fn = "push" /\ IsOk(eval.res)
    /\ eval.res.val.idx = 2 /\ eval.res.val.off = 0
    /\ Len(store.cache) = 2 /\ store.cache[1].idx = 1
    /\ FileLen(files, Segment(1)) < store.max
    /\ FileLen(files, Segment(0)) < store.max
\* a push of more bytes than a file holds has failed on a store that holds
\* records
C34_Refused ==
    /\ eval.fn = "push" /\ ~IsOk(eval.res) /\ Len(eval.arg) > store.max
    /\ Len(locs) > 2

(***************************************************************************)
(* IBatch as bytes, and a batch written and undone.  Keys and values are   *)
(* byte strings; a database of the test is a function from the keys it     *)
(* holds to their values.                                                  *)
(***************************************************************************)
\* WritebatchIterator for IBatchIter: put and deleted
IBatchIter_put(k, v) == <<1>> \o Writer_int(Len(k), 2) \o k \o Writer_int(Len(v), 2) \o v
IBatchIter_deleted(k) == <<2>> \o Writer_int(Len(k), 2) \o k
\* Writebatch::iterate with IBatchIter over the entries of a batch
RECURSIVE IBatch_iterate(_)
IBatch_iterate(ops) ==
    IF ops = <<>> THEN <<>>
    ELSE (IF Head(ops).typ = 1 THEN IBatchIter_put(Head(ops).k, Head(ops).v)
          ELSE IBatchIter_deleted(Head(ops).k))
         \o IBatch_iterate(Tail(ops))
\* IBatch::bytes and IBatch::reverse
IBatch_bytes(batch) == IBatch_iterate(batch.b)
IBatch_reverse_bytes(batch) == IF batch.rev THEN IBatch_iterate(batch.f) ELSE <<>>
\* TryFrom<&[u8]> for IBatch: the loop over the entries from position p
RECURSIVE IBatch_from_bytes(_, _, _)
IBatch_from_bytes(bb, p, batch) ==
    IF Reader_remaining(bb, p) <= 0 THEN Ok(batch)
    ELSE Bind(Reader_u8(bb, p), LAMBDA t :
      IF ~IsOk(t) THEN t
      ELSE IF t.val.v \notin {1, 2} THEN Err("type byte error")
      ELSE Bind(Reader_uint(bb, t.val.p, 2), LAMBDA kl :
        IF ~IsOk(kl) THEN kl
        ELSE Bind(Reader_get_bytes(bb, kl.val.p, kl.val.v), LAMBDA kb :
          IF ~IsOk(kb) THEN kb
          ELSE IF t.val.v = 2
          THEN IBatch_from_bytes(bb, kb.val.p, IBatch_del_none(batch, kb.val.v))
          ELSE Bind(Reader_uint(bb, kb.val.p, 2), LAMBDA vl :
            IF ~IsOk(vl) THEN vl
            ELSE Bind(Reader_get_bytes(bb, vl.val.p, vl.val.v), LAMBDA vv :
              IF ~IsOk(vv) THEN vv
              ELSE IBatch_from_bytes(bb, vv.val.p,
                                     IBatch_put(batch, kb.val.v, vv.val.v)))))))
IBatch_try_from_bytes(bb) == IBatch_from_bytes(bb, 0, IBatch_new(FALSE))
\* the keys and the values of the test
BatchKeys == {<<1>>, <<2, 0>>}
BatchValues == {<<7>>, <<8, 9>>}
\* the databases of the test
BatchDbs == UNION {[held -> BatchValues] : held \in SUBSET BatchKeys}
\* the calls of a caller on a batch: put, set, del with Some(v) and del
\* with None; v is the value put, the new value or the value of Some
BatchOps ==
    {[op |-> "put", k |-> k, v |-> v, old |-> <<>>] : k \in BatchKeys, v \in BatchValues}
    \cup {[op |-> "set", k |-> k, v |-> v, old |-> o] :
            k \in BatchKeys, v \in BatchValues, o \in BatchValues}
    \cup {[op |-> "del", k |-> k, v |-> v, old |-> <<>>] : k \in BatchKeys, v \in BatchValues}
    \cup {[op |-> "del_none", k |-> k, v |-> <<>>, old |-> <<>>] : k \in BatchKeys}
\* the sequences of up to n calls
RECURSIVE BatchCallsUpTo(_)
BatchCallsUpTo(n) ==
    IF n = 0 THEN {<<>>}
    ELSE BatchCallsUpTo(n - 1)
         \cup {Append(q, c) : q \in {x \in BatchCallsUpTo(n - 1) : Len(x) = n - 1},
                              c \in BatchOps}
\* the calls made on the batch, one after the other
RECURSIVE IBatch_build(_, _)
IBatch_build(batch, calls) ==
    IF calls = <<>> THEN batch
    ELSE IBatch_build(
           CASE Head(calls).op = "put" -> IBatch_put(batch, Head(calls).k, Head(calls).v)
             [] Head(calls).op = "set" ->
                   IBatch_set(batch, Head(calls).k, Head(calls).v, Head(calls).old)
             [] Head(calls).op = "del" -> IBatch_del(batch, Head(calls).k, Head(calls).v)
             [] OTHER -> IBatch_del_none(batch, Head(calls).k),
           Tail(calls))
\* what a database holds
Content(db) == [k \in LevelDB_keys(db) |-> LevelDB_get(db, k).val]
\* test_leveldb_batch: the batch is written, the batch made from the bytes
\* of its inverse is written after it
WriteAndUndo(held, calls) ==
    Bind(IBatch_build(IBatch_new(TRUE), calls), LAMBDA b1 :
    Bind(IBatch_try_from_bytes(IBatch_reverse_bytes(b1)), LAMBDA rw :
      IF ~IsOk(rw) THEN rw
      ELSE Bind(LevelDB_write(LevelDB_open(held), b1), LAMBDA written :
           Ok([written |-> Content(written),
               inverse |-> rw.val.b,
               undone |-> Content(LevelDB_write(written, rw.val))]))))
InitBatch ==
    /\ conf = Config_test
    /\ disk = [index |-> <<>>, blk |-> <<>>, rev |-> <<>>]
    /\ leveldb = [put |-> <<>>, del |-> {}]
    /\ cache = <<>>
    /\ blk = <<>>
    /\ rev = <<>>
    /\ pool = TxPool_default
    /\ last = [op |-> "new", err |-> ""]
    /\ rwlock = Unlocked
    /\ thr = [t \in Threads |-> Idle]
    /\ store = NoStore
    /\ files = <<>>
    /\ locs = <<>>
    /\ pubsub = NoPubSub
    /\ \E held \in BatchDbs : \E calls \in BatchCallsUpTo(MaxOps) :
          eval = [fn |-> "", arg |-> [call |-> "batch", db |-> held, calls |-> calls],
                  res |-> <<>>]
\* LevelDB::write of the batch and of its inverse
WriteBatch ==
    /\ eval.fn = ""
    /\ eval.arg.call = "batch"
    /\ eval' = [eval EXCEPT !.fn = "batch",
                            !.res = WriteAndUndo(eval.arg.db, eval.arg.calls)]
    /\ UNCHANGED <<store, files, locs>>
    /\ UNCHANGED Chain0
NextBatch == WriteBatch
SpecBatch == InitBatch /\ [][NextBatch]_vars

\* the caller gave the batch what the database held: a put names a key it
\* does not hold, a set and a del the value it holds, and a del without a
\* value a key it does not hold
TruePrior(held, c) ==
    CASE c.op = "put" -> c.k \notin DOMAIN held
      [] c.op = "set" -> c.k \in DOMAIN held /\ held[c.k] = c.old
      [] c.op = "del" -> c.k \in DOMAIN held /\ held[c.k] = c.v
      [] OTHER -> c.k \notin DOMAIN held
\* the inverse entries of the calls as said: a delete for a put, a put of
\* the old value for a set, a put of the value for a del, nothing for a del
\* without a value
RECURSIVE InverseAsSaid(_)
InverseAsSaid(calls) ==
    IF calls = <<>> THEN <<>>
    ELSE (CASE Head(calls).op = "put" -> <<OpDel(Head(calls).k)>>
            [] Head(calls).op = "set" -> <<OpPut(Head(calls).k, Head(calls).old)>>
            [] Head(calls).op = "del" -> <<OpPut(Head(calls).k, Head(calls).v)>>
            [] OTHER -> <<>>)
         \o InverseAsSaid(Tail(calls))
\* what the index holds when the first n calls of the batch have taken
\* effect
HeldAfter(held, calls, n) ==
    Content(LevelDB_write(LevelDB_open(held),
                          IBatch_build(IBatch_new(TRUE), SubSeq(calls, 1, n))))
\* the index is restored and the inverse is as said
Restored ==
    /\ IsOk(eval.res)
    /\ eval.res.val.undone = eval.arg.db
    /\ eval.res.val.inverse = InverseAsSaid(eval.arg.calls)
\* C35: a batch made with the inverse flag is written and then the batch
\* read from the bytes of its inverse; when every put named a key that was
\* absent, every set gave the value the key had and every del the value it
\* deleted, the index holds again what it held before, and the inverse is a
\* delete for each put, a put of the old value for each set, a put of the
\* value for each del with a value and nothing for a del without one.
C35_InverseRestores ==
    (/\ eval.fn = "batch"
     /\ \A n \in DOMAIN eval.arg.calls :
           TruePrior(HeldAfter(eval.arg.db, eval.arg.calls, n - 1), eval.arg.calls[n]))
        => Restored
\* the same when the keys and values given are those the index held before
\* the batch was written
C35_PriorToBatch ==
    (/\ eval.fn = "batch"
     /\ \A n \in DOMAIN eval.arg.calls : TruePrior(eval.arg.db, eval.arg.calls[n]))
        => Restored
\* a batch of a put, a set and a del has changed the index and its inverse
\* has restored it
C35_Witness ==
    /\ eval.fn = "batch"
    /\ \A n \in DOMAIN eval.arg.calls : TruePrior(eval.arg.db, eval.arg.calls[n])
    /\ {eval.arg.calls[n].op : n \in DOMAIN eval.arg.calls} = {"put", "set", "del"}
    /\ IsOk(eval.res)
    /\ eval.res.val.written # eval.arg.db
    /\ eval.res.val.undone = eval.arg.db
\* a key put and then deleted with the value put is held after the inverse
\* though it was not held before: the inverse is written in the order of
\* the batch
PutThenDel ==
    /\ eval.fn = "batch"
    /\ Len(eval.arg.calls) = 2
    /\ eval.arg.calls[1].op = "put" /\ eval.arg.calls[2].op = "del"
    /\ eval.arg.calls[1].k = eval.arg.calls[2].k
    /\ eval.arg.calls[1].v = eval.arg.calls[2].v
    /\ eval.arg.calls[1].k \notin DOMAIN eval.arg.db
    /\ IsOk(eval.res)
    /\ eval.arg.calls[1].k \in DOMAIN eval.res.val.undone

(***************************************************************************)
(* get between links and pops: BlkIndexer::get is called with the keys a   *)
(* caller can name: the heights around the tip, the id of the tip, the id  *)
(* of the block a miner would link next (the one a pop has just taken off) *)
(* and an id no block has.                                                 *)
(***************************************************************************)
\* the capacity of BlkCache::default
BLK_CACHE_CAP == 10240
\* the keys handed to get
GetKeys(self) ==
    {height_key(0)}
    \cup (IF IsOk(best(self))
          THEN {height_key(TipHeight(self)), height_key(TipHeight(self) + 1),
                id_key(best(self).val.id)}
          ELSE {})
    \cup {id_key(Block_id(NextBlock(self))), id_key(NeverSeen)}
\* BlkIndexer::get called between the links and pops: the cache is what the
\* call left, and what it returned is kept for the caller
GetBlock ==
    \E k \in GetKeys(Self) :
       LET r == get(Self, k)
       IN /\ cache' = r.self.cache
          /\ last' = [op |-> "get", err |-> r.err]
          /\ eval' = [fn |-> "get", arg |-> k, res |-> [err |-> r.err, val |-> r.val]]
          /\ UNCHANGED <<leveldb, blk, rev, pool, conf, disk>>
          /\ UNCHANGED <<rwlock, thr, store, files, locs, pubsub>>
\* Chain::link of the block a miner builds on the tip
LinkMined ==
    /\ Len(blk) < MaxStore
    /\ LET r == link(Self, NextBlock(Self), Now, "ok") IN Becomes(r.self, "link", r.err)
NextGet == LinkMined \/ Pop \/ GetBlock
SpecGet == Init /\ [][NextGet]_vars

\* k names, by id or by height, a block of the current chain
OnChain(self, k) ==
    /\ IsOk(best(self))
    /\ IF k[1] = "u32" THEN k[2] \in 0..TipHeight(self)
       ELSE \E h \in 0..TipHeight(self) : IdAt(self, h) = k[2]
\* the id a key names and the BlkAttr the index records for it
NamedId(self, k) == IF k[1] = "u32" THEN IdAt(self, k[2]) ELSE k[2]
AttrOf(self, k) == LevelDB_get(self.leveldb, id_key(NamedId(self, k))).val
\* the block get returned is the block that was linked: header and
\* transactions, as PartialEq for Block compares them
ReturnsLinked(self, k) ==
    Bind(get(self, k).val, LAMBDA b :
        /\ b.header = StoredBlock(self, NamedId(self, k)).header
        /\ b.txs = StoredBlock(self, NamedId(self, k)).txs
        /\ Block_id(b) = NamedId(self, k))
\* the block get returned carries what its BlkAttr records
CarriesAttr(self, k) ==
    Bind(get(self, k).val, LAMBDA b :
        /\ b.hhv = AttrOf(self, k).hhv
        /\ b.blk = AttrOf(self, k).blk
        /\ b.rev = AttrOf(self, k).rev)
\* the indexer with nothing cached: get reads the store
Uncached(self) == [self EXCEPT !.cache = <<>>]
\* get answers the same from the cache and from the store
CacheAgrees(self, k) ==
    /\ get(self, k).err = get(Uncached(self), k).err
    /\ get(self, k).val = get(Uncached(self), k).val
\* the last step was a get of a key of the chain that returned a block
GotBlock == last.op = "get" /\ last.err = "" /\ OnChain(Self, eval.arg)
\* after a successful pop the popped block is returned for neither its id
\* nor the height it had
PoppedIsGone ==
    [][(last'.op = "pop" /\ last'.err = "" /\ IsOk(best(Self)))
          => /\ ~IsOk(get(Self', id_key(best(Self).val.id)))
             /\ ~IsOk(get(Self', height_key(TipHeight(Self))))]_vars

\* C36: for any sequence of link, pop and get calls, get(k) returns a block
\* if and only if k names, by id or by height, a block of the current
\* chain; the block returned equals the linked one and carries the height,
\* blk_loc and rev_loc its BlkAttr records, the same from the cache and from
\* the store; after pop the popped block is returned for neither its id nor
\* its former height; the cache never holds more than 10240 entries.
C36_GetReturnsChainBlock ==
    /\ [](\A k \in GetKeys(Self) :
            /\ IsOk(get(Self, k)) <=> OnChain(Self, k)
            /\ CacheAgrees(Self, k)
            /\ OnChain(Self, k) => ReturnsLinked(Self, k) /\ CarriesAttr(Self, k))
    /\ [](last.op = "get" => (last.err = "" <=> OnChain(Self, eval.arg)))
    /\ [](Cardinality(DOMAIN cache) <= BLK_CACHE_CAP)
    /\ PoppedIsGone
\* what get does do: it answers for the keys of the chain and no other, with
\* the header and transactions of the linked block, the same from the cache
\* and from the store, and not for a popped block
C36_GetByIdOrHeight ==
    /\ [](\A k \in GetKeys(Self) :
            /\ IsOk(get(Self, k)) <=> OnChain(Self, k)
            /\ CacheAgrees(Self, k)
            /\ OnChain(Self, k) => ReturnsLinked(Self, k))
    /\ [](last.op = "get" => (last.err = "" <=> OnChain(Self, eval.arg)))
    /\ [](Cardinality(DOMAIN cache) <= BLK_CACHE_CAP)
    /\ PoppedIsGone
\* the block returned has height 0 and no locations whatever its BlkAttr says
C36_ClonedAttr ==
    /\ GotBlock
    /\ AttrOf(Self, eval.arg).hhv > 0
    /\ eval.res.val.hhv = 0
    /\ eval.res.val.blk = Attr_default

\* the transactions pending in the mempool: those by_id holds and those
\* iter yields from by_fee
Pending(p) == ByIdTxs(p) \cup ByFeeTxs(p)
\* every input of tx names an unspent coin of the index
SpendsUnspent(self, tx) ==
    \A i \in 1..Len(tx.ins) : InputCoinKey(tx.ins[i]) \in CoinKeys(self)
\* C37: after any sequence of append, remove, link and pop calls every
\* transaction pending in the mempool spends only outpoints that are
\* unspent coins of the confirmed UTXO set
C37_PendingSpendsUnspent ==
    \A tx \in Pending(pool) : SpendsUnspent(Self, tx)
\* a transaction is pending whose coin a linked block has spent
C37_PendingSpendsSpent ==
    /\ Returned("link")
    /\ \E tx \in ByIdTxs(pool) : ~SpendsUnspent(Self, tx)
\* append lets in only transactions that spend unspent coins
C37_AppendedSpendsUnspent ==
    [][(last'.op = "append" /\ last'.err = "")
          => \A tx \in ByIdTxs(pool') \ ByIdTxs(pool) : SpendsUnspent(Self', tx)]_vars

(***************************************************************************)
(* Hasher::compute_bits at full width.  An i64 is its four 16-bit words,   *)
(* lowest first, in two's complement; a u32 is its two 16-bit words.       *)
(***************************************************************************)
\* the i64 of a number
I64(n) ==
    IF n >= 0 THEN <<n % 65536, n \div 65536, 0, 0>>
    ELSE <<65535 - ((0 - n - 1) % 65536), 65535 - ((0 - n - 1) \div 65536), 65535, 65535>>
\* i64 + i64 and i64 - i64, wrapping
I64_add(a, b) ==
    Bind(a[1] + b[1], LAMBDA s1 :
      Bind(a[2] + b[2] + (s1 \div 65536), LAMBDA s2 :
        Bind(a[3] + b[3] + (s2 \div 65536), LAMBDA s3 :
          <<s1 % 65536, s2 % 65536, s3 % 65536,
            (a[4] + b[4] + (s3 \div 65536)) % 65536>>)))
I64_neg(a) == I64_add(<<65535 - a[1], 65535 - a[2], 65535 - a[3], 65535 - a[4]>>, I64(1))
I64_sub(a, b) == I64_add(a, I64_neg(b))
\* i64 > i64
I64_gt(a, b) ==
    Bind(<<(a[4] + 32768) % 65536, a[3], a[2], a[1]>>, LAMBDA x :
      Bind(<<(b[4] + 32768) % 65536, b[3], b[2], b[1]>>, LAMBDA y :
        \E i \in 1..4 : x[i] > y[i] /\ \A j \in 1..(i - 1) : x[j] = y[j]))
\* i64 as u32: the low 32 bits
I64_as_u32(a) == <<a[1], a[2]>>
\* u32 < n and u32 > n for a number n below 2^31
U32_lt(u, n) == u[2] < 32768 /\ u[2] * 65536 + u[1] < n
U32_gt(u, n) == u[2] >= 32768 \/ u[2] * 65536 + u[1] > n
\* BigUint * u32
RECURSIVE CarryBytes(_)
CarryBytes(c) == IF c = 0 THEN <<>> ELSE <<c % 256>> \o CarryBytes(c \div 256)
RECURSIVE MulBytes(_, _, _, _)
MulBytes(v, m, i, carry) ==
    IF i > Len(v) THEN CarryBytes(carry)
    ELSE <<(v[i] * m + carry) % 256>> \o MulBytes(v, m, i + 1, (v[i] * m + carry) \div 256)
BigUint_mul_u32(v, m) == Normal(MulBytes(v, m, 1, 0))
\* BigUint / u32
RECURSIVE DivBytes(_, _, _, _)
DivBytes(v, d, i, rem) ==
    IF i = 0 THEN <<>>
    ELSE DivBytes(v, d, i - 1, (rem * 256 + v[i]) % d) \o <<(rem * 256 + v[i]) \div d>>
BigUint_div_u32(v, d) == Normal(DivBytes(v, d, Len(v), 0))
\* BigUint::cmp: a <= b
BigUint_le(a, b) ==
    \/ Len(a) < Len(b)
    \/ /\ Len(a) = Len(b)
       /\ \/ a = b
          \/ \E i \in 1..Len(a) : a[i] < b[i] /\ \A j \in (i + 1)..Len(a) : a[j] = b[j]
\* Mul<u32> and Div<u32> for Hasher, Ord for Hasher
Hasher_mul(h, m) == Hasher_from_BigUint(BigUint_mul_u32(BigUint_from_Hasher(h), m))
Hasher_div(h, d) == Hasher_from_BigUint(BigUint_div_u32(BigUint_from_Hasher(h), d))
Hasher_le(a, b) == BigUint_le(BigUint_from_Hasher(a), BigUint_from_Hasher(b))
\* the elapsed time compute_bits scales by: (ltime - ptime) as u32, held
\* between stime / 4 and stime * 4
compute_bits_sub(stime, ltime, ptime) ==
    Bind(I64_as_u32(I64_sub(ltime, ptime)), LAMBDA sub :
      IF U32_lt(sub, stime \div 4) THEN stime \div 4
      ELSE IF U32_gt(sub, stime * 4) THEN stime * 4
      ELSE sub[2] * 65536 + sub[1])
\* clamp(ltime - ptime, stime / 4, stime * 4) of the difference as a number
clamp_elapsed(stime, ltime, ptime) ==
    Bind(I64_sub(ltime, ptime), LAMBDA d :
      IF d[4] >= 32768 THEN stime \div 4
      ELSE IF d[4] > 0 \/ d[3] > 0 \/ d[2] >= 32768 THEN stime * 4
      ELSE IF d[2] * 65536 + d[1] < stime \div 4 THEN stime \div 4
      ELSE IF d[2] * 65536 + d[1] > stime * 4 THEN stime * 4
      ELSE d[2] * 65536 + d[1])
\* the bits of the target of lbits scaled by sub / stime, the limit's if the
\* scaled target is above the limit
scaled_bits(limit, stime, sub, lbits) ==
    Bind(Hasher_try_from_u32(lbits), LAMBDA t :
      IF IsPanic(t) THEN t
      ELSE Bind(Hasher_mul(t.val, sub), LAMBDA m :
        IF IsPanic(m) THEN m
        ELSE Bind(Hasher_div(m.val, stime), LAMBDA pow :
          IF Hasher_le(pow.val, limit) THEN Ok(Hasher_compact(pow.val))
          ELSE Ok(Hasher_compact(limit)))))
\* Hasher::compute_bits (self is the pow limit); the debug_assert! lines are
\* compiled in when debug_assertions is on
Hasher_compute_bits(limit, stime, ltime, ptime, lbits, debug_assertions) ==
    IF debug_assertions /\ ~(stime > 0) THEN Panic("assertion failed: stime > 0")
    ELSE IF debug_assertions /\ ~(I64_gt(ltime, I64(0)) /\ I64_gt(ltime, ptime))
    THEN Panic("assertion failed: ltime > 0 && ltime > ptime")
    ELSE scaled_bits(limit, stime, compute_bits_sub(stime, ltime, ptime), lbits)

\* the pow limit of test_compute_bits: 2^224 - 1
TestLimit == Repeat(255, 28) \o Repeat(0, 4)
\* the times of test_compute_bits
TestLtime == 1349255821
TestPtime == 1348121651
\* 2^32 as an i64
TwoTo32 == <<0, 0, 1, 0>>
\* the elapsed times: below zero, zero, around stime / 4, stime and
\* stime * 4, that of test_compute_bits, and around 2^31 and 2^32
Elapsed(stime) ==
    {I64(d) : d \in {0 - stime, 0 - 1, 0, 1, (stime \div 4) - 1, stime \div 4,
                     (stime \div 4) + 1, stime - 1, stime, stime + 1,
                     TestLtime - TestPtime, (stime * 4) - 1, stime * 4, (stime * 4) + 1,
                     2147483647}}
    \cup {I64_add(I64(2147483647), I64(d)) : d \in {1, stime}}
    \cup {I64_add(TwoTo32, I64(d)) : d \in {0 - 1, 0, 10, stime, stime * 4}}
\* compute_bits of the pow limit of the test, for the periods 1209600 and
\* 600, the bits of targets far below, just below and at the limit, and
\* the elapsed times above counted from the ptime of the test
BitsCalls ==
    {[call |-> "bits", stime |-> st, ltime |-> I64_add(I64(TestPtime), e),
      ptime |-> I64(TestPtime), lbits |-> b, debug_assertions |-> dbg] :
        st \in {PowTime, 600}, e \in Elapsed(PowTime) \cup Elapsed(600),
        b \in {Bits(26, 383883), Bits(29, 65535), Bits(28, 8388607), Bits(27, 263371),
               Bits(28, 4194304), Bits(4, 1193046), Bits(3, 4)},
        dbg \in BOOLEAN}
InitBits ==
    /\ conf = Config_test
    /\ disk = [index |-> <<>>, blk |-> <<>>, rev |-> <<>>]
    /\ leveldb = [put |-> <<>>, del |-> {}]
    /\ cache = <<>>
    /\ blk = <<>>
    /\ rev = <<>>
    /\ pool = TxPool_default
    /\ last = [op |-> "new", err |-> ""]
    /\ rwlock = Unlocked
    /\ thr = [t \in Threads |-> Idle]
    /\ store = NoStore
    /\ files = <<>>
    /\ locs = <<>>
    /\ pubsub = NoPubSub
    /\ \E a \in BitsCalls : eval = [fn |-> "", arg |-> a, res |-> <<>>]
\* Hasher::compute_bits
ComputeBits ==
    /\ eval.fn = ""
    /\ eval.arg.call = "bits"
    /\ eval' = [eval EXCEPT
                  !.fn = "bits",
                  !.res = Hasher_compute_bits(TestLimit, eval.arg.stime, eval.arg.ltime,
                                              eval.arg.ptime, eval.arg.lbits,
                                              eval.arg.debug_assertions)]
    /\ UNCHANGED <<store, files, locs>>
    /\ UNCHANGED Chain0
NextBits == ComputeBits
SpecBits == InitBits /\ [][NextBits]_vars

\* the call made was compute_bits
BitsDone == eval.fn = "bits"
\* the elapsed time of the call is above 0 and below 2^31
ElapsedInRange ==
    Bind(I64_sub(eval.arg.ltime, eval.arg.ptime), LAMBDA d :
      d[4] = 0 /\ d[3] = 0 /\ d[2] < 32768 /\ (d[1] > 0 \/ d[2] > 0))
\* the bits the statement gives: the compact form of the old target scaled
\* by the elapsed time held between stime / 4 and stime * 4, or of the limit
BitsAsSaid ==
    scaled_bits(TestLimit, eval.arg.stime,
                clamp_elapsed(eval.arg.stime, eval.arg.ltime, eval.arg.ptime),
                eval.arg.lbits)
\* the old target, the new one and the limit, as BigUints
OldTarget == BigUint_from_Hasher(Hasher_try_from_u32(eval.arg.lbits).val)
NewTarget == BigUint_from_Hasher(Hasher_try_from_u32(eval.res.val).val)
\* the new target is not above the limit, not above 4 times the old one and
\* not below a quarter of the old one as the compact form holds it
TargetBounded ==
    /\ BigUint_le(NewTarget, BigUint_from_Hasher(TestLimit))
    /\ BigUint_le(NewTarget, BigUint_mul_u32(OldTarget, 4))
    /\ BigUint_le(BigUint_from_Hasher(Hasher_try_from_u32(Hasher_compact(
                     Hasher_div(Hasher_try_from_u32(eval.arg.lbits).val, 4).val)).val),
                  NewTarget)

\* C40: compute_bits returns the compact form of min(pow_limit, old_target *
\* clamp(ltime - ptime, pow_time/4, pow_time*4) / pow_time); the new target
\* is never above pow_limit and never more than 4 times larger or smaller
\* than the old one, for every elapsed time, zero, negative and very large
\* ones included.
C40_ComputeBits ==
    BitsDone => /\ eval.res = BitsAsSaid
                /\ TargetBounded
\* what compute_bits does: for an elapsed time above 0 and below 2^31 it
\* returns the bits of the statement; for the others it panics when debug
\* assertions are compiled in and the elapsed time is not above 0, and
\* otherwise scales by the low 32 bits of the difference; whatever it
\* returns is within the bounds
C40_ComputeBitsInRange ==
    BitsDone =>
        /\ ElapsedInRange => eval.res = BitsAsSaid
        /\ IsOk(eval.res) => TargetBounded
        /\ IsPanic(eval.res)
              <=> (eval.arg.debug_assertions
                   /\ ~I64_gt(eval.arg.ltime, eval.arg.ptime))
\* test_compute_bits: 0x1a05db8b after 1134170 seconds gives 0x1a057e08
C40_Witness ==
    /\ BitsDone
    /\ eval.arg.lbits = Bits(26, 383883)
    /\ eval.arg.stime = PowTime
    /\ eval.arg.ltime = I64(TestLtime)
    /\ eval.res = Ok(Bits(26, 359944))
\* a negative elapsed time scaled as if it were the longest
C40_NegativeElapsed ==
    /\ BitsDone
    /\ ~eval.arg.debug_assertions
    /\ I64_gt(eval.arg.ptime, eval.arg.ltime)
    /\ eval.res = scaled_bits(TestLimit, eval.arg.stime, eval.arg.stime * 4, eval.arg.lbits)
    /\ eval.res # BitsAsSaid
\* an elapsed time above 2^32 scaled as if it were the shortest
C40_WrappedElapsed ==
    /\ BitsDone
    /\ I64_sub(eval.arg.ltime, eval.arg.ptime) = I64_add(TwoTo32, I64(10))
    /\ eval.res = scaled_bits(TestLimit, eval.arg.stime, eval.arg.stime \div 4, eval.arg.lbits)
    /\ eval.res # BitsAsSaid

\* the account verify was called on has its arbiter key enabled
ArbiterEnabled == eval.fn = "verify" /\ Account_use_arb(eval.arg.acc)
\* C39: when the arbiter key of an account is enabled, Account::verify
\* returns the verdict of the arbiter alone: it accepts exactly when the
\* arbiter public key verifies a present signature and returns an error
\* otherwise, whether or not less other keys have signed
C39_ArbiterVerdict ==
    ArbiterEnabled
       => /\ Accepted <=> ArbiterVerifies(eval.arg.acc, eval.arg.msg)
          /\ ~Accepted => eval.res \in {Err("VerifySignErr"), Err("InvalidAccount")}
          /\ eval.res = Err("InvalidAccount")
                <=> Len(PresentFrom(eval.arg.acc.sigs, 1)) = 0
\* verify has returned an error for an account of three keys with the
\* arbiter enabled: the two keys of its threshold signed, the arbiter did not
C39_Witness ==
    /\ ArbiterEnabled
    /\ eval.res = Err("VerifySignErr")
    /\ eval.arg.acc.num = 3 /\ eval.arg.acc.less = 2
    /\ SlotVerifies(eval.arg.acc, 1, 1, eval.arg.msg)
    /\ SlotVerifies(eval.arg.acc, 2, 2, eval.arg.msg)
    /\ eval.arg.acc.sigs[3] = None
\* verify has accepted an account of three keys and threshold 2 that the
\* arbiter alone signed
C39_ArbiterSigned ==
    /\ ArbiterEnabled /\ Accepted
    /\ eval.arg.acc.num = 3 /\ eval.arg.acc.less = 2
    /\ eval.arg.acc.sigs[1] = None /\ eval.arg.acc.sigs[2] = None

====
